---- MODULE Spec2Model ----
(***************************************************************************)
(* Keeper / execution engine of the Tethra DEX backend.                    *)
(*                                                                         *)
(* The module models the price cache, the ledger as seen through the calls *)
(* the backend makes, the TP/SL monitor, the liquidation monitor, the      *)
(* gasless relay, the limit-order executor with the grid store, the        *)
(* tap-to-trade order store and the one-tap bet service with its monitor.  *)
(* Every loop runs on the one JavaScript thread: an action is the code     *)
(* between two awaits, and the interleavings are those of the awaits.      *)
(***************************************************************************)
EXTENDS Integers, Sequences, FiniteSets, TLC

(***************************************************************************)
(* Bounds of the model.                                                    *)
(***************************************************************************)
MaxPositions == 1
MaxTicks == 2
MaxRequests == 2
MaxNonce == 4
MaxOrders == 1
MaxGrids == 1
MaxTapOrders == 2
MaxBets == 2
SettleCallsCap == 2

(***************************************************************************)
(* Program constants.                                                      *)
(***************************************************************************)
StaleBoundMs == 60000
TRADING_FEE_BPS == 5
KEEPER_SHARE_BPS == 2000
BPS_DENOMINATOR == 10000
PRICE_DECIMALS_FACTOR == 100000000

\* The clock advances in steps of half the staleness bound, from a start
\* that is further from the epoch than the staleness bound.
TickMs == StaleBoundMs \div 2
StartMs == 3 * TickMs

Positions == 1..MaxPositions
Symbols == {"BTC"}
Traders == {"alice", "bob"}
\* The traders as the requests spell them.
TapTraders == Traders \cup {"Alice"}

\* trader.toLowerCase()
toLowerCase(trader) == IF trader = "Alice" THEN "alice" ELSE trader

\* The address of a request is not the owner's, compared without case.
Foreign(trader, owner) == toLowerCase(trader) # toLowerCase(owner)
\* Dollar prices small enough for the 8-decimal form to stay within 32 bits.
DollarPrices == {9, 11}
CollateralSet == {4000, 20000}
PnlSet == {-20000, 0}

NoPrice == [price |-> 0, timestamp |-> -1]

VARIABLES
    now,            \* Date.now(), milliseconds
    currentPrices,  \* PythPriceService.currentPrices: symbol -> tick or NoPrice
    keeperPrices,   \* the monitors' currentPrices maps (price in 8 decimals)
    ledgerPos,      \* PositionManager: position id -> position
    pendingNonce,   \* the keeper signer's pending transaction count
    futureTxs,      \* nonces submitted ahead of pendingNonce, not yet executable
    txLog,          \* history: who sent a close call for each position, and whether
                    \* a call was submitted with a nonce already taken
    tpslConfigs,    \* TPSLMonitor.tpslConfigs: position id -> config
    tpslOrder,      \* insertion order of tpslConfigs' keys (Map iteration order)
    tpsl,           \* TPSLMonitor: the frame of monitorLoop / closePosition
    relay,          \* RelayService.closePositionGasless: the running request
    requests,       \* number of API requests served so far
    pm,             \* PositionMonitor: the frame of monitorLoop
    partialFailed,  \* history: settlements that threw after a call of theirs finalized
    ledgerOrders,   \* LimitExecutor contract: order id -> order
    lo,             \* LimitOrderExecutor: the frame of monitorLoop / executeOrder
    lastCleanupTime,\* LimitOrderExecutor.lastCleanupTime
    gridSessions,   \* GridTradingService.gridSessions, in order of creation
    gridCells,      \* GridTradingService.gridCells, in order of creation
    cellsByGrid,    \* GridTradingService.cellsByGrid
    ttOrders,       \* TapToTradeService.orders, in order of creation
    ordersByTrader, \* TapToTradeService.ordersByTrader
    ordersByGrid,   \* TapToTradeService.ordersByGrid
    ordersByCell,   \* TapToTradeService.ordersByCell
    bets,           \* OneTapProfitService.bets, in order of insertion
    betsByTrader,   \* OneTapProfitService.betsByTrader
    placing,        \* placeBetByKeeper between the venue's receipt and the store
    otm,            \* OneTapProfitMonitor: queue, flags and the running settlement
    settleCalls,    \* history: calls of OneTapProfitService.settleBet per stored bet
    tpslRunning,    \* TPSLMonitor.isRunning
    exited,         \* process.exit has been called
    lastTick,       \* history: the last message the price feed delivered
    auth,           \* history: the last call of validateOrderWithSession
    fired,          \* history: the last evaluation of a trigger condition
    settlement,     \* history: the last settlement arithmetic of the two close paths
    keepers,        \* per keeper: isRunning and the monitorLoop calls that are alive
    pyth,           \* PythPriceService: socket, reconnection, subscribers
    los,            \* LimitOrderService: orderTPSLMap and the creations in flight
    attested        \* history: the last attestation GET /signed/:symbol returned

posVars == <<ledgerPos, pendingNonce, futureTxs, txLog, tpslConfigs, tpslOrder,
             tpsl, relay, requests, pm, partialFailed>>
loVars == <<ledgerOrders, lo, lastCleanupTime, gridSessions, gridCells, cellsByGrid>>
priceVars == <<now, currentPrices, keeperPrices>>
tapVars == <<ttOrders, ordersByTrader, ordersByGrid, ordersByCell>>
betVars == <<bets, betsByTrader, placing, otm, settleCalls>>
procVars == <<tpslRunning, exited, lastTick, auth, fired, settlement, keepers, pyth,
             los, attested>>
vars == <<priceVars, posVars, loVars, tapVars, betVars, procVars>>
\* What a step of one subsystem leaves alone in the other subsystems.
nonPosVars == <<loVars, tapVars, betVars, procVars>>
nonLoVars == <<posVars, tapVars, betVars, procVars>>
nonTapVars == <<posVars, loVars, betVars, procVars>>
nonBetVars == <<posVars, loVars, tapVars, procVars>>

(***************************************************************************)
(* JavaScript values whose type decides a comparison.                      *)
(***************************************************************************)
JsBigInt(v) == [t |-> "bigint", v |-> v]
JsNumber(v) == [t |-> "number", v |-> v]
\* Number(x)
ToNumber(x) == JsNumber(x.v)
\* a !== b
StrictNeq(a, b) == a # b
\* a != b
LooseNeq(a, b) == a.v # b.v

\* BigInt(Math.round(priceData.price * 100000000))
ToPrice8(p) == p * PRICE_DECIMALS_FACTOR

\* Math.floor(Date.now() / 1000)
NowSec == now \div 1000

RangeOf(s) == {s[i] : i \in DOMAIN s}
RemoveFromSeq(s, x) == SelectSeq(s, LAMBDA y : y # x)
DropKey(f, k) == [x \in DOMAIN f \ {k} |-> f[x]]
PutKey(f, k, v) == [x \in DOMAIN f \cup {k} |-> IF x = k THEN v ELSE f[x]]
\* index.get(key) || []
IdsOf(index, key) == IF key \in DOMAIN index THEN index[key] ELSE <<>>
\* const ids = index.get(key) || []; ids.push(id); index.set(key, ids)
PushId(index, key, id) == PutKey(index, key, Append(IdsOf(index, key), id))

(***************************************************************************)
(* PythPriceService                                                        *)
(***************************************************************************)
\* A test that rejects an old tick only when the cache already holds one.
TickTooOldUnlessFirst(publishTime) ==
    now - publishTime > StaleBoundMs /\ \E s \in Symbols : currentPrices[s] # NoPrice

\* age > 60000: the tick is rejected
TickTooOld(publishTime) == now - publishTime > StaleBoundMs

\* The subscribers' callback: every symbol of the snapshot is copied.
SubscriberCopy(snapshot) ==
    [s \in Symbols |->
        IF snapshot[s] = NoPrice THEN keeperPrices[s]
        ELSE [price |-> ToPrice8(snapshot[s].price),
              timestamp |-> IF snapshot[s].timestamp # 0
                            THEN snapshot[s].timestamp ELSE now]]

processPriceUpdate(sym, price, publishTime) ==
    /\ IF TickTooOld(publishTime)
       THEN UNCHANGED <<currentPrices, keeperPrices>>
       ELSE LET snap == [currentPrices EXCEPT
                            ![sym] = [price |-> price, timestamp |-> publishTime]]
            IN /\ currentPrices' = snap
               /\ keeperPrices' = SubscriberCopy(snap)
    /\ UNCHANGED now

Tick ==
    /\ now < StartMs + MaxTicks * TickMs
    /\ now' = now + TickMs
    /\ UNCHANGED <<currentPrices, keeperPrices>>

\* Publish times the feed can deliver: now, the oldest the service accepts,
\* and one clock step older than that.
PublishTimes == {now, now - StaleBoundMs, now - StaleBoundMs - TickMs}

(***************************************************************************)
(* The staleness test of the three position/order loops.                   *)
(***************************************************************************)
\* A test that lets through entries of up to twice the bound.
StaleAfterTwiceTheBound(priceData) == now - priceData.timestamp > 2 * StaleBoundMs

\* Date.now() - priceData.timestamp > 60000
IsStale(priceData) == now - priceData.timestamp > StaleBoundMs

(***************************************************************************)
(* Ledger: the signer's nonce and the position manager.                    *)
(***************************************************************************)
POS_OPEN == 0
\* Any status other than open: the backend only ever compares with 0.
POS_CLOSED == POS_OPEN + 1

\* The nonce the pool expects next, once the transactions queued ahead of it
\* have become executable.
RECURSIVE SkipQueued(_, _)
SkipQueued(n, queued) == IF n \in queued THEN SkipQueued(n + 1, queued \ {n}) ELSE n

\* A transaction submitted with nonce n: accepted when n is the pending
\* nonce, queued when n is ahead of it, refused when n was already used.
NonceAccepted(n) == n >= pendingNonce

\* Nonce n is that of a transaction submitted earlier, mined or queued.
NonceTaken(n) == n < pendingNonce \/ n \in futureTxs

SubmitTx(by, call, pos, n) ==
    /\ txLog' = [closers |-> IF call = "close"
                              THEN [txLog.closers EXCEPT ![pos] = @ \cup {by}]
                              ELSE txLog.closers,
                  nonceReused |-> txLog.nonceReused \/ NonceTaken(n),
                  foreignDelete |-> txLog.foreignDelete]
    /\ IF n = pendingNonce
       THEN /\ pendingNonce' = SkipQueued(n + 1, futureTxs)
            /\ futureTxs' = {q \in futureTxs : q >= SkipQueued(n + 1, futureTxs)}
       ELSE IF n > pendingNonce
       THEN /\ futureTxs' = futureTxs \cup {n}
            /\ UNCHANGED pendingNonce
       ELSE UNCHANGED <<pendingNonce, futureTxs>>

\* A submitted transaction is mined once every lower nonce has been used.
Mined(n) == n < pendingNonce

\* PositionManager.closePosition reverts unless the position is open.
CloseEffect(pid, ok) ==
    IF ok /\ ledgerPos[pid].status = POS_OPEN
    THEN ledgerPos' = [ledgerPos EXCEPT ![pid].status = POS_CLOSED]
    ELSE UNCHANGED ledgerPos

CloseSucceeds(pid, ok) == ok /\ ledgerPos[pid].status = POS_OPEN

(***************************************************************************)
(* Settlement arithmetic, TPSLMonitor.closePosition.                       *)
(***************************************************************************)
TPSLTradingFee(collateral) == (collateral * TRADING_FEE_BPS) \div BPS_DENOMINATOR
TPSLKeeperFee(collateral) ==
    (TPSLTradingFee(collateral) * KEEPER_SHARE_BPS) \div BPS_DENOMINATOR
TPSLTreasuryFee(collateral) == TPSLTradingFee(collateral) - TPSLKeeperFee(collateral)
\* The refund without the total-loss branch.
RefundWithoutFloor(collateral, pnl) == collateral + pnl - TPSLTradingFee(collateral)

TPSLRefund(collateral, pnl) ==
    IF pnl >= 0
    THEN collateral + pnl - TPSLTradingFee(collateral)
    ELSE IF collateral > (-pnl) + TPSLTradingFee(collateral)
         THEN collateral - (-pnl) - TPSLTradingFee(collateral)
         ELSE 0

TPSLAmount(call, collateral, pnl) ==
    CASE call = "treasury" -> TPSLTreasuryFee(collateral)
      [] call = "keeper" -> TPSLKeeperFee(collateral)
      [] call = "refund" -> TPSLRefund(collateral, pnl)
      [] OTHER -> 0

\* nonce, nonce + 1, nonce + 2: the offset is fixed per call
TPSLNonceOf(call, nonce) ==
    CASE call = "treasury" -> nonce
      [] call = "keeper" -> nonce + 1
      [] call = "refund" -> nonce + 2
      [] OTHER -> nonce

PlanCalls == <<"treasury", "keeper", "refund">>
PlanIndex(call) ==
    CASE call = "treasury" -> 1 [] call = "keeper" -> 2 [] call = "refund" -> 3
      [] OTHER -> 0

\* The next call of the plan after position i whose amount is positive,
\* "done" when there is none: each call sits behind an `if (amount > 0n)`.
RECURSIVE TPSLNextCall(_, _, _)
TPSLNextCall(i, collateral, pnl) ==
    IF i >= Len(PlanCalls) THEN "done"
    ELSE IF TPSLAmount(PlanCalls[i + 1], collateral, pnl) > 0 THEN PlanCalls[i + 1]
    ELSE TPSLNextCall(i + 1, collateral, pnl)

(***************************************************************************)
(* TPSLMonitor                                                             *)
(***************************************************************************)
NoCfg == [trader |-> "", takeProfit |-> 0, stopLoss |-> 0]

TPSLIdle ==
    [pc |-> "sleep", cursor |-> 0, pid |-> 0, cfg |-> NoCfg, collateral |-> 0,
     priceAge |-> 0, pnl |-> 0, nonce |-> 0,
     call |-> "none", txNonce |-> 0, sent |-> <<>>, finalized |-> 0, stale |-> FALSE]

\* Back in the for-loop of checkAllTPSL, at the given iteration position.
TPSLScanAt(cursor) == [TPSLIdle EXCEPT !.pc = "scan", !.cursor = cursor]

IndexOf(s, x) == IF x \in RangeOf(s) THEN CHOOSE i \in DOMAIN s : s[i] = x ELSE 0

\* Map.delete during a live iteration: the entries behind the cursor move up.
CursorAfterDelete(id) ==
    IF IndexOf(tpslOrder, id) # 0 /\ IndexOf(tpslOrder, id) <= tpsl.cursor
    THEN tpsl.cursor - 1 ELSE tpsl.cursor

\* this.tpslConfigs.delete(positionId)
ConfigsDelete(id) ==
    /\ tpslConfigs' = DropKey(tpslConfigs, id)
    /\ tpslOrder' = RemoveFromSeq(tpslOrder, id)

\* getPosition: status: Number(positionData.status)
TPSLReadPosition(pid) == [ledgerPos[pid] EXCEPT !.status = ToNumber(JsBigInt(@))]

\* !position || position.status !== 0
TPSLNotOpen(ok, pid) == ~ok \/ StrictNeq(TPSLReadPosition(pid).status, JsNumber(0))

\* Take profit that needs the price to pass the level.
TakeProfitPassed(isLong, price, tp) ==
    tp # 0 /\ ((isLong /\ price > tp) \/ (~isLong /\ price < tp))

\* checkTPSLTrigger: take profit, then stop loss; a level that is unset is skipped
TakeProfitHit(isLong, price, tp) ==
    tp # 0 /\ ((isLong /\ price >= tp) \/ (~isLong /\ price <= tp))
StopLossHit(isLong, price, sl) ==
    sl # 0 /\ ((isLong /\ price <= sl) \/ (~isLong /\ price >= sl))
TPSLShouldClose(isLong, price, cfg) ==
    TakeProfitHit(isLong, price, cfg.takeProfit) \/ StopLossHit(isLong, price, cfg.stopLoss)

\* The catch of closePosition: the error is logged and the scan goes on.
TPSLFail ==
    /\ tpsl' = TPSLScanAt(tpsl.cursor)
    /\ partialFailed' = IF tpsl.finalized > 0
                        THEN partialFailed \cup {[by |-> "tpsl", pid |-> tpsl.pid]}
                        ELSE partialFailed

\* monitorLoop: a new pass of checkAllTPSL after the sleep
TPSLBeginScan ==
    /\ tpsl.pc = "sleep"
    /\ tpslRunning
    /\ tpsl' = IF DOMAIN tpslConfigs = {} THEN tpsl ELSE TPSLScanAt(0)
    /\ UNCHANGED <<priceVars, nonPosVars, ledgerPos, pendingNonce, futureTxs, txLog, tpslConfigs,
                   tpslOrder, relay, requests, pm, partialFailed>>

\* for (const [positionId, config] of this.tpslConfigs.entries())
TPSLNextEntry ==
    /\ tpsl.pc = "scan"
    /\ tpsl' = IF tpsl.cursor < Len(tpslOrder)
               THEN [TPSLScanAt(tpsl.cursor + 1) EXCEPT
                        !.pc = "getPosition",
                        !.pid = tpslOrder[tpsl.cursor + 1],
                        !.cfg = tpslConfigs[tpslOrder[tpsl.cursor + 1]]]
               ELSE TPSLIdle
    /\ UNCHANGED <<priceVars, nonPosVars, ledgerPos, pendingNonce, futureTxs, txLog, tpslConfigs,
                   tpslOrder, relay, requests, pm, partialFailed>>

\* await getPosition, the status test, then checkTPSLTrigger up to its await
TPSLCheckPosition ==
    /\ tpsl.pc = "getPosition"
    /\ \E ok \in BOOLEAN :
         LET pos == TPSLReadPosition(tpsl.pid)
             pd == keeperPrices[pos.symbol]
         IN IF TPSLNotOpen(ok, tpsl.pid)
            THEN /\ ConfigsDelete(tpsl.pid)
                 /\ tpsl' = TPSLScanAt(CursorAfterDelete(tpsl.pid))
            ELSE /\ UNCHANGED <<tpslConfigs, tpslOrder>>
                 /\ tpsl' = IF pd = NoPrice
                            THEN TPSLScanAt(tpsl.cursor)
                            ELSE IF IsStale(pd)
                            THEN [TPSLScanAt(tpsl.cursor) EXCEPT !.stale = TRUE]
                            ELSE IF ~TPSLShouldClose(pos.isLong, pd.price, tpsl.cfg)
                            THEN TPSLScanAt(tpsl.cursor)
                            ELSE [tpsl EXCEPT !.pc = "calculatePnL",
                                              !.collateral = pos.collateral,
                                              !.priceAge = now - pd.timestamp]
    /\ UNCHANGED <<priceVars, nonPosVars, ledgerPos, pendingNonce, futureTxs, txLog,
                   relay, requests, pm, partialFailed>>

\* const pnl = await this.positionManager.calculatePnL(position.id, currentPrice)
TPSLCalculatePnL ==
    /\ tpsl.pc = "calculatePnL"
    /\ \E pnl \in PnlSet :
         tpsl' = [tpsl EXCEPT !.pc = "send", !.call = "close", !.pnl = pnl]
    /\ UNCHANGED <<priceVars, nonPosVars, ledgerPos, pendingNonce, futureTxs, txLog, tpslConfigs,
                   tpslOrder, relay, requests, pm, partialFailed>>

\* The nonce a call is sent with: the close call leaves it to the wallet,
\* the fee and refund calls carry nonce, nonce + 1, nonce + 2.
TPSLSendNonce == IF tpsl.call = "close" THEN pendingNonce
                 ELSE TPSLNonceOf(tpsl.call, tpsl.nonce)

\* A frame that goes on to the next call of the plan as soon as a fee call is
\* submitted, without its receipt.
TPSLSubmittedUnawaited(n) ==
    LET next == TPSLNextCall(PlanIndex(tpsl.call), tpsl.collateral, tpsl.pnl)
    IN IF tpsl.call = "close" \/ next = "done"
       THEN [tpsl EXCEPT !.pc = "wait", !.txNonce = n,
                         !.sent = IF tpsl.call = "close" THEN @ ELSE Append(@, n)]
       ELSE [tpsl EXCEPT !.pc = "send", !.call = next, !.txNonce = n,
                         !.sent = Append(@, n)]

\* const tx = await ...sendTransaction(...) has resolved: await tx.wait() is next
TPSLSubmitted(n) ==
    [tpsl EXCEPT !.pc = "wait", !.txNonce = n,
                 !.sent = IF tpsl.call = "close" THEN @ ELSE Append(@, n)]

\* positionManager.closePosition(...) / keeperWallet.sendTransaction({... nonce})
TPSLSend ==
    /\ tpsl.pc = "send"
    /\ pendingNonce < MaxNonce
    /\ SubmitTx("tpsl", tpsl.call, tpsl.pid, TPSLSendNonce)
    /\ IF NonceAccepted(TPSLSendNonce)
       THEN /\ tpsl' = TPSLSubmitted(TPSLSendNonce)
            /\ UNCHANGED partialFailed
       ELSE TPSLFail
    /\ UNCHANGED <<priceVars, nonPosVars, ledgerPos, tpslConfigs, tpslOrder, relay, requests, pm>>

\* What follows the receipt of a fee or refund call: the next call of the
\* plan, or this.tpslConfigs.delete(Number(position.id)) when none is left.
TPSLAfterCall(i) ==
    LET next == TPSLNextCall(i, tpsl.collateral, tpsl.pnl)
    IN IF next = "done"
       THEN /\ ConfigsDelete(tpsl.pid)
            /\ tpsl' = TPSLScanAt(CursorAfterDelete(tpsl.pid))
       ELSE /\ UNCHANGED <<tpslConfigs, tpslOrder>>
            /\ tpsl' = [tpsl EXCEPT !.pc = "send", !.call = next,
                                    !.finalized = IF i = 0 THEN @ ELSE @ + 1]

\* await tx.wait()
TPSLWait ==
    /\ tpsl.pc = "wait"
    /\ Mined(tpsl.txNonce)
    /\ \E ok \in BOOLEAN :
         IF tpsl.call = "close"
         THEN /\ CloseEffect(tpsl.pid, ok)
              /\ IF CloseSucceeds(tpsl.pid, ok)
                 THEN /\ tpsl' = [tpsl EXCEPT !.pc = "getNonce", !.finalized = @ + 1]
                      /\ UNCHANGED <<partialFailed, tpslConfigs, tpslOrder>>
                 ELSE /\ TPSLFail
                      /\ UNCHANGED <<tpslConfigs, tpslOrder>>
         ELSE /\ UNCHANGED ledgerPos
              /\ IF ok
                 THEN /\ TPSLAfterCall(PlanIndex(tpsl.call))
                      /\ UNCHANGED partialFailed
                 ELSE /\ TPSLFail
                      /\ UNCHANGED <<tpslConfigs, tpslOrder>>
    /\ UNCHANGED <<priceVars, nonPosVars, pendingNonce, futureTxs, txLog, relay, requests, pm>>

\* sleep(2000); const nonce = await getTransactionCount(keeper, 'pending')
TPSLGetNonce ==
    /\ tpsl.pc = "getNonce"
    /\ LET next == TPSLNextCall(0, tpsl.collateral, tpsl.pnl)
       IN IF next = "done"
          THEN /\ ConfigsDelete(tpsl.pid)
               /\ tpsl' = TPSLScanAt(CursorAfterDelete(tpsl.pid))
          ELSE /\ UNCHANGED <<tpslConfigs, tpslOrder>>
               /\ tpsl' = [tpsl EXCEPT !.pc = "send", !.call = next,
                                       !.nonce = pendingNonce]
    /\ UNCHANGED <<priceVars, nonPosVars, ledgerPos, pendingNonce, futureTxs, txLog,
                   relay, requests, pm, partialFailed>>

\* Levels a trader can ask for; 0 stands for a level left unset.
LevelPairs == {<<ToPrice8(11), 0>>, <<0, ToPrice8(11)>>, <<ToPrice8(9), 0>>}

\* setTPSL(positionId, trader, takeProfit, stopLoss)
setTPSL(pid, trader, tp, sl) ==
    LET position == TPSLReadPosition(pid)
        rejected == \/ LooseNeq(position.status, JsNumber(0))
                    \/ toLowerCase(position.trader) # toLowerCase(trader)
                    \/ tp # 0 /\ position.isLong /\ tp <= position.entryPrice
                    \/ tp # 0 /\ ~position.isLong /\ tp >= position.entryPrice
    IN /\ requests < MaxRequests
       /\ requests' = requests + 1
       /\ IF rejected
          THEN UNCHANGED <<tpslConfigs, tpslOrder>>
          ELSE /\ tpslConfigs' = PutKey(tpslConfigs, pid,
                      [trader |-> position.trader, takeProfit |-> tp, stopLoss |-> sl])
               /\ tpslOrder' = IF pid \in DOMAIN tpslConfigs THEN tpslOrder
                               ELSE Append(tpslOrder, pid)
       /\ UNCHANGED <<priceVars, nonPosVars, ledgerPos, pendingNonce, futureTxs, txLog, tpsl,
                      relay, pm, partialFailed>>

\* deleteTPSL(positionId, trader)
deleteTPSL(pid, trader) ==
    /\ requests < MaxRequests
    /\ requests' = requests + 1
    /\ IF /\ pid \in DOMAIN tpslConfigs
          /\ toLowerCase(tpslConfigs[pid].trader) = toLowerCase(trader)
       THEN /\ ConfigsDelete(pid)
            /\ tpsl' = [tpsl EXCEPT !.cursor = CursorAfterDelete(pid)]
            /\ txLog' = [txLog EXCEPT
                  !.foreignDelete = @ \/ Foreign(trader, tpslConfigs[pid].trader)]
       ELSE UNCHANGED <<tpslConfigs, tpslOrder, tpsl, txLog>>
    /\ UNCHANGED <<priceVars, nonPosVars, ledgerPos, pendingNonce, futureTxs,
                   relay, pm, partialFailed>>

(***************************************************************************)
(* RelayService.closePositionGasless                                       *)
(***************************************************************************)
RelayTradingFee(collateral) == (collateral * TRADING_FEE_BPS) \div BPS_DENOMINATOR
\* The relayer taking the treasury's share of the fee.
RelayTreasuryShare(collateral) ==
    (RelayTradingFee(collateral) * (BPS_DENOMINATOR - KEEPER_SHARE_BPS)) \div BPS_DENOMINATOR

RelayRelayerFee(collateral) ==
    (RelayTradingFee(collateral) * KEEPER_SHARE_BPS) \div BPS_DENOMINATOR
RelayTreasuryFee(collateral) == RelayTradingFee(collateral) - RelayRelayerFee(collateral)
RelayRefund(collateral, pnl) ==
    IF pnl >= 0
    THEN collateral + pnl - RelayTradingFee(collateral)
    ELSE IF collateral > (-pnl) + RelayTradingFee(collateral)
         THEN collateral - (-pnl) - RelayTradingFee(collateral)
         ELSE 0

RelayAmount(call, collateral, pnl) ==
    CASE call = "treasury" -> RelayTreasuryFee(collateral)
      [] call = "keeper" -> RelayRelayerFee(collateral)
      [] call = "refund" -> RelayRefund(collateral, pnl)
      [] OTHER -> 0

\* nonce: nonce / nonce: nonce + 1 / nonce: nonce + 2
RelayNonceOf(call, nonce) ==
    CASE call = "treasury" -> nonce
      [] call = "keeper" -> nonce + 1
      [] call = "refund" -> nonce + 2
      [] OTHER -> nonce

RECURSIVE RelayNextCall(_, _, _)
RelayNextCall(i, collateral, pnl) ==
    IF i >= Len(PlanCalls) THEN "done"
    ELSE IF RelayAmount(PlanCalls[i + 1], collateral, pnl) > 0 THEN PlanCalls[i + 1]
    ELSE RelayNextCall(i + 1, collateral, pnl)

RelayIdle ==
    [pc |-> "idle", userAddress |-> "", pid |-> 0, collateral |-> 0, pnl |-> 0, nonce |-> 0,
     call |-> "none", txNonce |-> 0, sent |-> <<>>, finalized |-> 0]

\* catch (error) { ...; throw error }: the request ends with an error reply
RelayFail ==
    /\ relay' = RelayIdle
    /\ partialFailed' = IF relay.finalized > 0
                        THEN partialFailed \cup {[by |-> "relay", pid |-> relay.pid]}
                        ELSE partialFailed

\* POST /close-position, up to the reply of GET /api/price/signed/:symbol
RelayRequest ==
    /\ relay.pc = "idle"
    /\ requests < MaxRequests
    /\ requests' = requests + 1
    /\ \E userAddress \in Traders, pid \in Positions, sym \in Symbols :
         relay' = IF currentPrices[sym] = NoPrice THEN RelayIdle
                  ELSE [RelayIdle EXCEPT !.pc = "getPosition", !.pid = pid,
                                         !.userAddress = userAddress]
    /\ UNCHANGED <<priceVars, nonPosVars, ledgerPos, pendingNonce, futureTxs, txLog, tpslConfigs,
                   tpslOrder, tpsl, pm, partialFailed>>

\* await getPosition(...); await calculatePnL(...): no test of status or owner
RelayGetPosition ==
    /\ relay.pc = "getPosition"
    /\ \E pnl \in PnlSet :
         relay' = [relay EXCEPT !.pc = "send", !.call = "close", !.pnl = pnl,
                                !.collateral = ledgerPos[relay.pid].collateral]
    /\ UNCHANGED <<priceVars, nonPosVars, ledgerPos, pendingNonce, futureTxs, txLog, tpslConfigs,
                   tpslOrder, tpsl, requests, pm, partialFailed>>

RelaySendNonce == IF relay.call = "close" THEN pendingNonce
                  ELSE RelayNonceOf(relay.call, relay.nonce)

\* wallet.sendTransaction({...}) / wallet.sendTransaction({..., nonce})
RelaySend ==
    /\ relay.pc = "send"
    /\ pendingNonce < MaxNonce
    /\ SubmitTx("relay", relay.call, relay.pid, RelaySendNonce)
    /\ IF NonceAccepted(RelaySendNonce)
       THEN /\ relay' = [relay EXCEPT !.pc = "wait", !.txNonce = RelaySendNonce,
                             !.sent = IF relay.call = "close" THEN @
                                      ELSE Append(@, RelaySendNonce)]
            /\ UNCHANGED partialFailed
       ELSE RelayFail
    /\ UNCHANGED <<priceVars, nonPosVars, ledgerPos, tpslConfigs, tpslOrder, tpsl, requests, pm>>

\* await tx.wait()
RelayWait ==
    /\ relay.pc = "wait"
    /\ Mined(relay.txNonce)
    /\ \E ok \in BOOLEAN :
         IF relay.call = "close"
         THEN /\ CloseEffect(relay.pid, ok)
              /\ IF CloseSucceeds(relay.pid, ok)
                 THEN /\ relay' = [relay EXCEPT !.pc = "getNonce", !.finalized = @ + 1]
                      /\ UNCHANGED partialFailed
                 ELSE RelayFail
         ELSE /\ UNCHANGED ledgerPos
              /\ IF ok
                 THEN LET next == RelayNextCall(PlanIndex(relay.call),
                                                relay.collateral, relay.pnl)
                      IN /\ relay' = IF next = "done" THEN RelayIdle
                                     ELSE [relay EXCEPT !.pc = "send", !.call = next,
                                                        !.finalized = @ + 1]
                         /\ UNCHANGED partialFailed
                 ELSE RelayFail
    /\ UNCHANGED <<priceVars, nonPosVars, pendingNonce, futureTxs, txLog, tpslConfigs, tpslOrder,
                   tpsl, requests, pm>>

\* setTimeout(2000); const nonce = await provider.getTransactionCount(..., 'pending')
RelayGetNonce ==
    /\ relay.pc = "getNonce"
    /\ LET next == RelayNextCall(0, relay.collateral, relay.pnl)
       IN relay' = IF next = "done" THEN RelayIdle
                   ELSE [relay EXCEPT !.pc = "send", !.call = next,
                                      !.nonce = pendingNonce]
    /\ UNCHANGED <<priceVars, nonPosVars, ledgerPos, pendingNonce, futureTxs, txLog, tpslConfigs,
                   tpslOrder, tpsl, requests, pm, partialFailed>>

(***************************************************************************)
(* PositionMonitor                                                         *)
(***************************************************************************)
PMIdle == [pc |-> "sleep", id |-> 0, priceAge |-> 0, txNonce |-> 0,
           stale |-> FALSE, missed |-> FALSE]

\* getPosition: status: positionData.status, the ledger's integer as decoded
PMReadPosition(pid) == [ledgerPos[pid] EXCEPT !.status = JsBigInt(@)]

\* !position || position.status !== 0
PMNotOpen(ok, pid) == ~ok \/ StrictNeq(PMReadPosition(pid).status, JsNumber(0))

\* History: the position was read, is open on the ledger and has a fresh
\* price, and the loop still moves on without checkPositionLiquidation.
PMPassedOver(ok, pid) ==
    /\ ok
    /\ ledgerPos[pid].status = POS_OPEN
    /\ keeperPrices[ledgerPos[pid].symbol] # NoPrice
    /\ ~IsStale(keeperPrices[ledgerPos[pid].symbol])

\* const totalPositions = Number(nextPositionId) - 1
PMTotalPositions == MaxPositions

\* Math.max(1, totalPositions - 99)
PMStartId(total) == IF total - 99 > 1 THEN total - 99 ELSE 1

\* The for-loop of checkAllPositions moves to the next id, or the pass ends.
PMNext == IF pm.id + 1 > PMTotalPositions THEN PMIdle
          ELSE [PMIdle EXCEPT !.pc = "scan", !.id = pm.id + 1]

\* One step of monitorLoop: the code between two awaits of checkAllPositions,
\* checkPositionLiquidation and liquidatePosition.
PMStep ==
    /\ \/ /\ pm.pc = "sleep"
          /\ pm' = [PMIdle EXCEPT !.pc = "scan", !.id = PMStartId(PMTotalPositions)]
          /\ UNCHANGED <<ledgerPos, pendingNonce, futureTxs, txLog>>
       \/ /\ pm.pc = "scan"
          /\ \E ok \in BOOLEAN :
               LET pd == keeperPrices[ledgerPos[pm.id].symbol]
               IN pm' = IF PMNotOpen(ok, pm.id) \/ pd = NoPrice
                        THEN [PMNext EXCEPT !.missed = PMPassedOver(ok, pm.id)]
                        ELSE IF IsStale(pd)
                        THEN [PMNext EXCEPT !.stale = TRUE]
                        ELSE [pm EXCEPT !.pc = "shouldLiquidate",
                                        !.priceAge = now - pd.timestamp]
          /\ UNCHANGED <<ledgerPos, pendingNonce, futureTxs, txLog>>
       \/ /\ pm.pc = "shouldLiquidate"
          /\ \E shouldLiquidate \in BOOLEAN :
               pm' = IF shouldLiquidate THEN [pm EXCEPT !.pc = "send"] ELSE PMNext
          /\ UNCHANGED <<ledgerPos, pendingNonce, futureTxs, txLog>>
       \/ /\ pm.pc = "send"
          /\ pendingNonce < MaxNonce
          /\ \/ /\ SubmitTx("liquidation", "close", pm.id, pendingNonce)
                /\ pm' = [pm EXCEPT !.pc = "wait", !.txNonce = pendingNonce]
             \/ /\ pm' = PMNext
                /\ UNCHANGED <<pendingNonce, futureTxs, txLog>>
          /\ UNCHANGED ledgerPos
       \/ /\ pm.pc = "wait"
          /\ Mined(pm.txNonce)
          /\ \E ok \in BOOLEAN : CloseEffect(pm.id, ok)
          /\ pm' = PMNext
          /\ UNCHANGED <<pendingNonce, futureTxs, txLog>>
    /\ UNCHANGED <<priceVars, nonPosVars, tpslConfigs, tpslOrder, tpsl, relay, requests,
                   partialFailed>>

(***************************************************************************)
(* GridTradingService                                                      *)
(***************************************************************************)
\* The window a cell is created with, in seconds: the clock is before it at
\* the start, inside it one step later, and after it from then on.
CellWindows == {<<(StartMs + TickMs) \div 1000, (StartMs + TickMs) \div 1000>>}

\* getActiveCells(): ACTIVE cells of sessions that are active
getActiveCells ==
    {c \in DOMAIN gridCells :
        /\ gridCells[c].status = "ACTIVE"
        /\ gridSessions[gridCells[c].gridSessionId].isActive}

\* updateCellStatus(cellId, status)
updateCellStatus(cells, c, status) == [cells EXCEPT ![c].status = status]

\* cleanupExpiredCells(): ACTIVE cells past their end become EXPIRED
cleanupExpiredCells(cells) ==
    [c \in DOMAIN cells |->
        IF cells[c].status = "ACTIVE" /\ NowSec > cells[c].endTime
        THEN [cells[c] EXCEPT !.status = "EXPIRED"] ELSE cells[c]]

createGridSession(trader) ==
    /\ Len(gridSessions) < MaxGrids
    /\ gridSessions' = Append(gridSessions, [trader |-> toLowerCase(trader),
                                             isActive |-> TRUE, foreign |-> FALSE])
    /\ cellsByGrid' = PutKey(cellsByGrid, Len(gridSessions) + 1, <<>>)
    /\ UNCHANGED gridCells

createGridCell(g, window) ==
    /\ Len(gridCells) < MaxGrids
    /\ g \in DOMAIN gridSessions
    /\ gridCells' = Append(gridCells,
          [gridSessionId |-> g, startTime |-> window[1], endTime |-> window[2],
           orderIds |-> {}, status |-> "PENDING", foreign |-> FALSE])
    /\ cellsByGrid' = PushId(cellsByGrid, g, Len(gridCells) + 1)
    /\ UNCHANGED gridSessions

addOrderToCell(c, orderId) ==
    /\ c \in DOMAIN gridCells
    /\ gridCells' = [gridCells EXCEPT
          ![c].orderIds = @ \cup {orderId},
          ![c].status = IF @ = "PENDING" THEN "ACTIVE" ELSE @]
    /\ UNCHANGED <<gridSessions, cellsByGrid>>

cancelGridSession(g, trader) ==
    /\ g \in DOMAIN gridSessions
    /\ gridSessions[g].trader = toLowerCase(trader)
    /\ gridSessions' = [gridSessions EXCEPT ![g].isActive = FALSE, ![g].foreign = @ \/ Foreign(trader, gridSessions[g].trader)]
    /\ gridCells' = [c \in DOMAIN gridCells |->
          IF gridCells[c].gridSessionId = g /\ gridCells[c].status \in {"ACTIVE", "PENDING"}
          THEN [gridCells[c] EXCEPT !.status = "CANCELLED"] ELSE gridCells[c]]
    /\ UNCHANGED cellsByGrid

cancelGridCell(c, trader) ==
    /\ c \in DOMAIN gridCells
    /\ gridSessions[gridCells[c].gridSessionId].trader = toLowerCase(trader)
    /\ gridCells[c].status \in {"ACTIVE", "PENDING"}
    /\ gridCells' = [updateCellStatus(gridCells, c, "CANCELLED") EXCEPT
          ![c].foreign = @ \/ Foreign(trader, gridSessions[gridCells[c].gridSessionId].trader)]
    /\ UNCHANGED <<gridSessions, cellsByGrid>>

\* The operations of the grid service, as its callers invoke them.
GridOp ==
    /\ \/ \E t \in TapTraders : createGridSession(t)
       \/ \E g \in 1..MaxGrids, w \in CellWindows : createGridCell(g, w)
       \/ \E c \in 1..MaxGrids, o \in 1..MaxOrders : addOrderToCell(c, o)
       \/ \E g \in 1..MaxGrids, t \in TapTraders : cancelGridSession(g, t)
       \/ \E c \in 1..MaxGrids, t \in TapTraders : cancelGridCell(c, t)
    /\ UNCHANGED <<priceVars, nonLoVars, ledgerOrders, lo, lastCleanupTime>>

(***************************************************************************)
(* LimitOrderExecutor                                                      *)
(***************************************************************************)
ORDER_PENDING == 0
\* Any status other than pending.
ORDER_EXECUTED == ORDER_PENDING + 1
LIMIT_OPEN == 0
LIMIT_CLOSE == 1
STOP_LOSS == 2
CleanupIntervalMs == 30000

\* Orders placed on the ledger before the executor starts, all with the
\* trigger at 10 dollars: order 1 is a long limit-open that outlives the
\* clock of the model, order 2 a short stop-loss that expires within it, any
\* further order a long limit-close.
PlacedOrder(id) ==
    [symbol |-> "BTC", isLong |-> (id # 2),
     orderType |-> IF id = 1 THEN LIMIT_OPEN ELSE IF id = 2 THEN STOP_LOSS ELSE LIMIT_CLOSE,
     triggerPrice |-> ToPrice8(10),
     expiresAt |-> IF id = 2 THEN (StartMs + 2 * TickMs) \div 1000
                   ELSE (StartMs + (MaxTicks + 1) * TickMs) \div 1000,
     status |-> ORDER_PENDING, cancelled |-> FALSE]

LOIdle == [pc |-> "sleep", id |-> 0, evalAt |-> 0, priceAge |-> 0,
           cells |-> {}, stale |-> FALSE]

\* const currentOrderId = Number(nextOrderId)
LOCurrentOrderId == MaxOrders + 1

\* Math.max(1, currentOrderId - 100)
LOStartId(currentOrderId) == IF currentOrderId - 100 > 1 THEN currentOrderId - 100 ELSE 1

\* The trigger conditions by order type and side.
LOShouldExecute(order, currentPrice) ==
    IF order.orderType = LIMIT_OPEN
    THEN IF order.isLong THEN currentPrice <= order.triggerPrice
         ELSE currentPrice >= order.triggerPrice
    ELSE IF order.orderType = LIMIT_CLOSE
    THEN IF order.isLong THEN currentPrice >= order.triggerPrice
         ELSE currentPrice <= order.triggerPrice
    ELSE IF order.orderType = STOP_LOSS
    THEN IF order.isLong THEN currentPrice <= order.triggerPrice
         ELSE currentPrice >= order.triggerPrice
    ELSE FALSE

\* The cells an order is attached to, whatever their status.
CellsHolding(orderId) == {c \in DOMAIN gridCells : orderId \in gridCells[c].orderIds}

\* shouldExecuteGridOrder: the cell found among the active cells, or none (0)
LOCellOf(orderId) ==
    IF \E c \in getActiveCells : orderId \in gridCells[c].orderIds
    THEN CHOOSE c \in getActiveCells :
            /\ orderId \in gridCells[c].orderIds
            /\ \A d \in getActiveCells : orderId \in gridCells[d].orderIds => c <= d
    ELSE 0

\* shouldExecuteGridOrder(orderId): the answer
shouldExecuteGridOrder(orderId) ==
    LET c == LOCellOf(orderId)
    IN IF c = 0 THEN TRUE
       ELSE IF NowSec < gridCells[c].startTime THEN FALSE
       ELSE IF NowSec > gridCells[c].endTime THEN FALSE
       ELSE TRUE

\* shouldExecuteGridOrder(orderId): the cell store it leaves
GridAfterCheck(orderId) ==
    LET c == LOCellOf(orderId)
    IN IF c # 0 /\ NowSec >= gridCells[c].startTime /\ NowSec > gridCells[c].endTime
       THEN updateCellStatus(gridCells, c, "EXPIRED")
       ELSE gridCells

\* The for-loop of checkAndExecuteOrders moves on; after the last id the
\* pass ends with the periodic cleanup of the cells.
LOAdvance(stale) ==
    IF lo.id + 1 < LOCurrentOrderId
    THEN /\ lo' = [LOIdle EXCEPT !.pc = "getOrder", !.id = lo.id + 1, !.stale = stale]
         /\ UNCHANGED <<lastCleanupTime, gridCells>>
    ELSE /\ lo' = [LOIdle EXCEPT !.stale = stale]
         /\ IF now - lastCleanupTime > CleanupIntervalMs
            THEN /\ gridCells' = cleanupExpiredCells(gridCells)
                 /\ lastCleanupTime' = now
            ELSE UNCHANGED <<lastCleanupTime, gridCells>>

\* monitorLoop: a new pass; await nextOrderId()
LOBeginScan ==
    /\ lo.pc = "sleep"
    /\ lo' = [LOIdle EXCEPT !.pc = "getOrder", !.id = LOStartId(LOCurrentOrderId)]
    /\ UNCHANGED <<priceVars, nonLoVars, ledgerOrders, lastCleanupTime,
                   gridSessions, gridCells, cellsByGrid>>

\* await getOrder(orderId); if (order.status !== 0n) continue
LOGetOrder ==
    /\ lo.pc = "getOrder"
    /\ IF StrictNeq(JsBigInt(ledgerOrders[lo.id].status), JsBigInt(ORDER_PENDING))
       THEN LOAdvance(FALSE)
       ELSE /\ lo' = [lo EXCEPT !.pc = "cancelledOrders"]
            /\ UNCHANGED <<lastCleanupTime, gridCells>>
    /\ UNCHANGED <<priceVars, nonLoVars, ledgerOrders, gridSessions, cellsByGrid>>

\* await cancelledOrders(orderId), then every test up to executeOrder
LOCheckOrder ==
    /\ lo.pc = "cancelledOrders"
    /\ LET order == ledgerOrders[lo.id]
           pd == keeperPrices[order.symbol]
       IN IF order.cancelled \/ NowSec >= order.expiresAt \/ pd = NoPrice
          THEN LOAdvance(FALSE)
          ELSE IF IsStale(pd)
          THEN LOAdvance(TRUE)
          ELSE IF ~LOShouldExecute(order, pd.price)
          THEN LOAdvance(FALSE)
          ELSE IF ~shouldExecuteGridOrder(lo.id)
          THEN /\ lo' = [LOIdle EXCEPT !.pc = "skipped", !.id = lo.id]
               /\ gridCells' = GridAfterCheck(lo.id)
               /\ UNCHANGED lastCleanupTime
          ELSE /\ lo' = [lo EXCEPT !.pc = "execute", !.evalAt = NowSec,
                                   !.priceAge = now - pd.timestamp,
                                   !.cells = CellsHolding(lo.id)]
               /\ UNCHANGED <<lastCleanupTime, gridCells>>
    /\ UNCHANGED <<priceVars, nonLoVars, ledgerOrders, gridSessions, cellsByGrid>>

\* executeOrder: signPrice, the execute call of the order's type, tx.wait()
LOExecute ==
    /\ lo.pc \in {"execute", "skipped"}
    /\ IF lo.pc = "skipped"
       THEN UNCHANGED ledgerOrders
       ELSE \E ok \in BOOLEAN :
              ledgerOrders' = IF ok /\ ledgerOrders[lo.id].status = ORDER_PENDING
                              THEN [ledgerOrders EXCEPT ![lo.id].status = ORDER_EXECUTED]
                              ELSE ledgerOrders
    /\ LOAdvance(FALSE)
    /\ UNCHANGED <<priceVars, nonLoVars, gridSessions, cellsByGrid>>

InitLimit ==
    /\ ledgerOrders = [o \in 1..MaxOrders |-> PlacedOrder(o)]
    /\ lo = LOIdle
    /\ lastCleanupTime = 0
    /\ gridSessions = <<>>
    /\ gridCells = <<>>
    /\ cellsByGrid = <<>>

(***************************************************************************)
(* SessionKeyValidator                                                     *)
(***************************************************************************)
\* The session keys, the contracts an order can be signed for, and the
\* expiry times of a session: before the start of the clock, one step after
\* it, and after its end.
SessionAddresses == {"sk1", "sk2"}
Executors == {"executorBase", "executorOther"}
PastExpiry == StartMs - TickMs
FarExpiry == StartMs + (MaxTicks + 2) * TickMs
ExpiresAts == {PastExpiry, StartMs + TickMs, FarExpiry}

\* A signature is the key that made it and the digest it was made over; a
\* string that is no signature at all is Malformed.
Malformed == [signer |-> "none", msg |-> <<>>]
SignedBy(signer, msg) == [signer |-> signer, msg |-> msg]

\* hashMessage(solidityPackedKeccak256("Authorize session key ", address,
\* " for Tethra Tap-to-Trade until ", expiresAtSeconds))
AuthMessage(address, expiresAtSeconds) == <<"authorize", address, expiresAtSeconds>>

\* hashMessage(solidityPackedKeccak256(trader, symbol, isLong, collateral,
\* leverage, nonce, marketExecutor)): the address is packed as its bytes,
\* whatever its spelling.
OrderMessage(trader, nonce, marketExecutor) ==
    <<"order", toLowerCase(trader), nonce, marketExecutor>>

\* ethers.recoverAddress: throws on a malformed signature; recovers the
\* signing key when the digest is the signed one, some unrelated address
\* otherwise.
recoverAddress(digest, signature) ==
    IF signature = Malformed THEN "throw"
    ELSE IF signature.msg = digest THEN signature.signer
    ELSE "unrelated"

Valid == [valid |-> TRUE, error |-> "none"]
Invalid(error) == [valid |-> FALSE, error |-> error]
\* err.message of the error ethers throws
ErrMessage == "invalid signature"

\* The body of validateOrderWithSession, given the outcome of its first two
\* tests.
SessionChecks(params, expired, notOwner) ==
    LET sessionKey == params.sessionKey
        recoveredAuthSigner ==
            recoverAddress(AuthMessage(sessionKey.address, sessionKey.expiresAt \div 1000),
                           sessionKey.authSignature)
        recoveredSigner ==
            recoverAddress(OrderMessage(params.trader, params.nonce, params.marketExecutor),
                           params.signature)
    IN IF expired THEN Invalid("Session expired")
       ELSE IF notOwner THEN Invalid("Session not authorized by trader")
       ELSE IF recoveredAuthSigner = "throw" THEN Invalid(ErrMessage)
       ELSE IF toLowerCase(recoveredAuthSigner) # toLowerCase(params.trader)
       THEN Invalid("Invalid session authorization signature")
       ELSE IF recoveredSigner = "throw" THEN Invalid(ErrMessage)
       ELSE IF toLowerCase(recoveredSigner) # toLowerCase(sessionKey.address)
       THEN Invalid("Order signature not from session key")
       ELSE Valid

\* A validator that accepts a session in the millisecond it expires.
ValidateWithLateExpiry(params) ==
    SessionChecks(params, params.sessionKey.expiresAt < now,
                  toLowerCase(params.sessionKey.authorizedBy) # toLowerCase(params.trader))

\* A validator that does not compare authorizedBy with the trader.
ValidateWithoutOwnerTest(params) ==
    SessionChecks(params, params.sessionKey.expiresAt <= now, FALSE)

validateOrderWithSession(params) ==
    SessionChecks(params, params.sessionKey.expiresAt <= now,
                  toLowerCase(params.sessionKey.authorizedBy) # toLowerCase(params.trader))

validateOrderWithoutSession(params) ==
    LET recoveredSigner ==
            recoverAddress(OrderMessage(params.trader, params.nonce, params.marketExecutor),
                           params.signature)
    IN IF recoveredSigner = "throw" THEN Invalid(ErrMessage)
       ELSE IF toLowerCase(recoveredSigner) # toLowerCase(params.trader)
       THEN Invalid("Invalid order signature")
       ELSE Valid

\* The requests a client can send with a session key: the authorization is
\* malformed or signed by some wallet for some session key until the
\* session's expiry, the order is malformed or signed by some session key for
\* some trader and contract.
AuthSignatures(expiresAt) ==
    {Malformed} \cup {SignedBy(k, AuthMessage(a, expiresAt \div 1000)) :
                        k \in {"Alice", "bob"}, a \in SessionAddresses}
OrderSignatures ==
    {Malformed} \cup {SignedBy(k, OrderMessage(t, 1, x)) :
                        k \in SessionAddresses, t \in Traders, x \in Executors}
SessionKeys ==
    UNION {{[address |-> a, expiresAt |-> e, authorizedBy |-> w, authSignature |-> g] :
               a \in SessionAddresses, w \in {"Alice", "bob"}, g \in AuthSignatures(e)} :
           e \in ExpiresAts}
SessionRequests ==
    [trader : {"alice"}, nonce : {1}, signature : OrderSignatures,
     marketExecutor : Executors, sessionKey : SessionKeys]

NoAuth == [at |-> 0, params |-> <<>>, result |-> Valid]

\* One call of validateOrderWithSession; the call and its answer are kept.
ValidateSession ==
    /\ \E params \in SessionRequests :
         auth' = [at |-> now, params |-> params,
                  result |-> validateOrderWithSession(params)]
    /\ UNCHANGED <<priceVars, posVars, loVars, tapVars, betVars, tpslRunning, exited,
                   lastTick, fired, settlement, keepers,
                   pyth, los, attested>>

(***************************************************************************)
(* TapToTradeService: the in-memory store of tap-to-trade orders.          *)
(***************************************************************************)
TapStatuses == {"PENDING", "NEEDS_RESIGN", "EXECUTING", "EXECUTED",
                "CANCELLED", "EXPIRED", "FAILED"}

\* End of the time window a request can carry: one clock step after the start.
TapEndTimes == {(StartMs + TickMs) \div 1000}

\* The order signatures a request can carry: none that parses, Alice's, bob's.
\* Every request of the model signs nonce 1 for the contract of the base chain.
TapSignatures ==
    {Malformed, SignedBy("Alice", OrderMessage("alice", 1, "executorBase")),
     SignedBy("bob", OrderMessage("bob", 1, "executorBase"))}

\* The validation of an order's (nonce, signature) pair without a session key.
TapValidation(trader, signature) ==
    validateOrderWithoutSession([trader |-> trader, nonce |-> 1, signature |-> signature,
                                 marketExecutor |-> "executorBase"])

\* createOrder: the signature is validated (a failure throws before anything
\* is stored), then the order is stored PENDING
NewOrder(params) ==
    [trader |-> toLowerCase(params.trader), gridSessionId |-> params.gridSessionId,
     cellId |-> params.cellId, endTime |-> params.endTime,
     signature |-> params.signature, status |-> "PENDING", foreign |-> FALSE,
     inFailedBatch |-> FALSE]

\* A createOrder that leaves the order out of ordersByCell.
createOrderOffCell(params) ==
    /\ Len(ttOrders) < MaxTapOrders
    /\ TapValidation(params.trader, params.signature).valid
    /\ ttOrders' = Append(ttOrders, NewOrder(params))
    /\ ordersByTrader' = PushId(ordersByTrader, toLowerCase(params.trader), Len(ttOrders) + 1)
    /\ ordersByGrid' = PushId(ordersByGrid, params.gridSessionId, Len(ttOrders) + 1)
    /\ UNCHANGED ordersByCell

createOrder(params) ==
    /\ Len(ttOrders) < MaxTapOrders
    /\ IF TapValidation(params.trader, params.signature).valid
       THEN /\ ttOrders' = Append(ttOrders, NewOrder(params))
            /\ ordersByTrader' = PushId(ordersByTrader, toLowerCase(params.trader),
                                        Len(ttOrders) + 1)
            /\ ordersByGrid' = PushId(ordersByGrid, params.gridSessionId, Len(ttOrders) + 1)
            /\ ordersByCell' = PushId(ordersByCell, params.cellId, Len(ttOrders) + 1)
       ELSE UNCHANGED tapVars

\* A cancelOrder without the test of the owner.
cancelOrderByAnyone(orderId, trader) ==
    /\ orderId \in DOMAIN ttOrders
    /\ ttOrders[orderId].status \in {"PENDING", "NEEDS_RESIGN"}
    /\ ttOrders' = [ttOrders EXCEPT ![orderId].status = "CANCELLED",
                                    ![orderId].foreign = @ \/ Foreign(trader, ttOrders[orderId].trader)]

\* cancelOrder: the owner only, and only a PENDING or NEEDS_RESIGN order.
\* An entity keeps in `foreign`, as history, whether an owner-checked call
\* has changed it for an address that is not its owner's in any spelling.
cancelOrder(orderId, trader) ==
    /\ orderId \in DOMAIN ttOrders
    /\ ttOrders[orderId].trader = toLowerCase(trader)
    /\ ttOrders[orderId].status \in {"PENDING", "NEEDS_RESIGN"}
    /\ ttOrders' = [ttOrders EXCEPT ![orderId].status = "CANCELLED",
                                    ![orderId].foreign = @ \/ Foreign(trader, ttOrders[orderId].trader)]

\* markAsExecuting: the order must exist
markAsExecuting(orderId) ==
    /\ orderId \in DOMAIN ttOrders
    /\ ttOrders' = [ttOrders EXCEPT ![orderId].status = "EXECUTING"]

\* markAsExecuted: the order must exist
markAsExecuted(orderId) ==
    /\ orderId \in DOMAIN ttOrders
    /\ ttOrders' = [ttOrders EXCEPT ![orderId].status = "EXECUTED"]

\* updateOrderStatus: the order must exist; any status is written
updateOrderStatus(orderId, status) ==
    /\ orderId \in DOMAIN ttOrders
    /\ ttOrders' = [ttOrders EXCEPT ![orderId].status = status]

\* markAsFailed: the order must exist
markAsFailed(orderId) ==
    /\ orderId \in DOMAIN ttOrders
    /\ ttOrders' = [ttOrders EXCEPT ![orderId].status = "FAILED"]

\* markAsNeedsResign: the order must exist
markAsNeedsResign(orderId) ==
    /\ orderId \in DOMAIN ttOrders
    /\ ttOrders' = [ttOrders EXCEPT ![orderId].status = "NEEDS_RESIGN"]

\* updateSignature: the owner only, and only a NEEDS_RESIGN order; the new
\* signature is stored as it came
updateSignature(orderId, signature, trader) ==
    /\ orderId \in DOMAIN ttOrders
    /\ ttOrders[orderId].trader = toLowerCase(trader)
    /\ ttOrders[orderId].status = "NEEDS_RESIGN"
    /\ ttOrders' = [ttOrders EXCEPT ![orderId].signature = signature,
                                    ![orderId].status = "PENDING",
                                    ![orderId].foreign = @ \/ Foreign(trader, ttOrders[orderId].trader)]

\* cleanupExpiredOrders: every PENDING order past its window becomes EXPIRED
cleanupExpiredOrders(orders) ==
    [i \in DOMAIN orders |->
        IF orders[i].status = "PENDING" /\ NowSec > orders[i].endTime
        THEN [orders[i] EXCEPT !.status = "EXPIRED"]
        ELSE orders[i]]

\* The operations that write an order and leave the indices alone.
TapStatusOp ==
    \/ \E o \in 1..MaxTapOrders, t \in TapTraders : cancelOrder(o, t)
    \/ \E o \in 1..MaxTapOrders : markAsExecuting(o)
    \/ \E o \in 1..MaxTapOrders : markAsExecuted(o)
    \/ \E o \in 1..MaxTapOrders, s \in TapStatuses : updateOrderStatus(o, s)
    \/ \E o \in 1..MaxTapOrders : markAsFailed(o)
    \/ \E o \in 1..MaxTapOrders : markAsNeedsResign(o)
    \/ \E o \in 1..MaxTapOrders, g \in TapSignatures, t \in TapTraders :
          updateSignature(o, g, t)
    \/ ttOrders' = cleanupExpiredOrders(ttOrders)

\* The operations of the order store, as its callers invoke them.
TapOrderOp ==
    /\ \/ \E t \in TapTraders, e \in TapEndTimes, g \in TapSignatures,
             gs \in 1..MaxGrids, c \in 1..MaxGrids :
             createOrder([trader |-> t, gridSessionId |-> gs, cellId |-> c,
                          endTime |-> e, signature |-> g])
       \/ /\ UNCHANGED <<ordersByTrader, ordersByGrid, ordersByCell>>
          /\ TapStatusOp
    /\ UNCHANGED <<priceVars, nonTapVars>>

\* batchCreateOrders: requests.map((req) => this.createOrder(req)).  The
\* requests in front of the first one whose validation throws are stored;
\* each keeps, as history, whether its batch threw.
RECURSIVE ValidPrefix(_)
ValidPrefix(reqs) ==
    IF reqs = <<>> THEN <<>>
    ELSE IF ~TapValidation(Head(reqs).trader, Head(reqs).signature).valid
    THEN <<>>
    ELSE <<Head(reqs)>> \o ValidPrefix(Tail(reqs))

RECURSIVE StoreOrders(_, _, _)
StoreOrders(reqs, store, threw) ==
    IF reqs = <<>> THEN store
    ELSE LET params == Head(reqs)
             id == Len(store.orders) + 1
         IN StoreOrders(Tail(reqs),
                [orders |-> Append(store.orders,
                                   [NewOrder(params) EXCEPT !.inFailedBatch = threw]),
                 byTrader |-> PushId(store.byTrader, toLowerCase(params.trader), id),
                 byGrid |-> PushId(store.byGrid, params.gridSessionId, id),
                 byCell |-> PushId(store.byCell, params.cellId, id)],
                threw)

batchCreateOrders(reqs) ==
    LET stored == ValidPrefix(reqs)
        store == StoreOrders(stored,
                             [orders |-> ttOrders, byTrader |-> ordersByTrader,
                              byGrid |-> ordersByGrid, byCell |-> ordersByCell],
                             Len(stored) < Len(reqs))
    IN /\ Len(ttOrders) + Len(reqs) <= MaxTapOrders
       /\ ttOrders' = store.orders
       /\ ordersByTrader' = store.byTrader
       /\ ordersByGrid' = store.byGrid
       /\ ordersByCell' = store.byCell

\* POST /batch-create with the orders of one grid session
BatchRequests ==
    {<<[trader |-> t, gridSessionId |-> 1, cellId |-> 1,
        endTime |-> (StartMs + TickMs) \div 1000, signature |-> g1],
       [trader |-> t, gridSessionId |-> 1, cellId |-> 1,
        endTime |-> (StartMs + TickMs) \div 1000, signature |-> g2]>> :
        t \in {"alice"}, g1 \in TapSignatures, g2 \in TapSignatures}

BatchCreate ==
    /\ \E reqs \in BatchRequests : batchCreateOrders(reqs)
    /\ UNCHANGED <<priceVars, nonTapVars>>

InitTap ==
    /\ ttOrders = <<>>
    /\ ordersByTrader = <<>>
    /\ ordersByGrid = <<>>
    /\ ordersByCell = <<>>

(***************************************************************************)
(* OneTapProfitService: the bets of both venues, keyed by venue and id.    *)
(***************************************************************************)
Venues == {"base", "flow"}
\* Grid centres of the bets, in dollars.
TargetPrices == {10, 16}
\* Length of a bet's time window, in seconds: one clock step.
BetWindowSec == TickMs \div 1000
\* GRID_Y_DOLLARS of the monitor for a symbol other than SOL
GRID_Y_DOLLARS == 10

\* The position in the store of the bet with key `${chain}-${betId}`, 0 when
\* the store has no such key.
BetAt(chain, betId) ==
    IF \E i \in DOMAIN bets : bets[i].chain = chain /\ bets[i].betId = betId
    THEN CHOOSE i \in DOMAIN bets : bets[i].chain = chain /\ bets[i].betId = betId
    ELSE 0

NoPlacing == [chain |-> "none", betId |-> 0, request |-> <<>>, entryTime |-> 0]

\* The id the venue's contract gives the next bet: each venue counts its own.
\* Every bet of a venue is in the store, but the one being placed.
NextBetId(chain) == Cardinality({i \in DOMAIN bets : bets[i].chain = chain}) + 1

\* The bet as placeBetByKeeper stores it and as the venue returns it, ACTIVE.
\* The request's sessionSignature does not reach placeBetByKeeper; the bet
\* keeps, as history, whose session made it.
PlacedBet ==
    [betId |-> placing.betId, chain |-> placing.chain,
     trader |-> toLowerCase(placing.request.trader),
     signedFor |-> placing.request.sessionSignature,
     symbol |-> "BTC", targetPrice |-> placing.request.targetPrice,
     entryTime |-> placing.entryTime,
     targetTime |-> placing.entryTime + BetWindowSec,
     status |-> "ACTIVE"]

\* this.bets.set(compositeKey, bet)
BetsSet(chain, betId, bet) ==
    IF BetAt(chain, betId) # 0 THEN [bets EXCEPT ![BetAt(chain, betId)] = bet]
    ELSE Append(bets, bet)

\* placeBetByKeeper up to the receipt of the venue's placeBetByKeeper: the
\* venue has given the bet its id.
placeBetByKeeper(request, chain, ok) ==
    /\ placing = NoPlacing
    /\ Len(bets) < MaxBets
    /\ placing' = IF ok
                  THEN [chain |-> chain, betId |-> NextBetId(chain), request |-> request,
                        entryTime |-> NowSec]
                  ELSE NoPlacing
    /\ UNCHANGED <<bets, betsByTrader>>

\* placeBetByKeeper after `await this.calculateMultiplier(...)`: the bet is
\* stored under the composite key and the key is pushed to the trader's
\* list.
StoreBet ==
    /\ placing # NoPlacing
    /\ bets' = BetsSet(placing.chain, placing.betId, PlacedBet)
    /\ betsByTrader' = PushId(betsByTrader, PlacedBet.trader,
                              <<placing.chain, placing.betId>>)
    /\ placing' = NoPlacing
    /\ UNCHANGED <<priceVars, nonBetVars, otm, settleCalls>>

\* syncBetFromChain(betId, chain) as getBet and settleBet call it, for a key
\* that is not in memory: the bet is read from the venue and stored, and its
\* key is pushed to the trader's list unless the list includes it.
syncBetFromChain(betId, chain) ==
    /\ BetAt(chain, betId) = 0
    /\ placing.chain = chain /\ placing.betId = betId
    /\ bets' = BetsSet(chain, betId, PlacedBet)
    /\ betsByTrader' =
          IF <<chain, betId>> \in RangeOf(IdsOf(betsByTrader, PlacedBet.trader))
          THEN betsByTrader
          ELSE PushId(betsByTrader, PlacedBet.trader, <<chain, betId>>)
    /\ UNCHANGED placing

\* GET /bet/:betId with a composite key
SyncBet ==
    /\ \E chain \in Venues, betId \in 1..MaxBets : syncBetFromChain(betId, chain)
    /\ UNCHANGED <<priceVars, nonBetVars, otm, settleCalls>>

\* getBet(betId) for an id without a venue: the base key first, then the
\* flow key; 0 when neither venue's bet is in memory.
getBet(betId) ==
    IF BetAt("base", betId) # 0 THEN BetAt("base", betId)
    ELSE BetAt("flow", betId)

\* getActiveBets: the ACTIVE bets sorted by targetTime; the sort is stable,
\* so bets with the same targetTime keep the order of the Map.
SortsBefore(i, j) ==
    \/ bets[i].targetTime < bets[j].targetTime
    \/ bets[i].targetTime = bets[j].targetTime /\ i < j

RECURSIVE SortedByTargetTime(_)
SortedByTargetTime(S) ==
    IF S = {} THEN <<>>
    ELSE LET m == CHOOSE i \in S : \A j \in S \ {i} : SortsBefore(i, j)
         IN <<m>> \o SortedByTargetTime(S \ {m})

getActiveBets == SortedByTargetTime({i \in DOMAIN bets : bets[i].status = "ACTIVE"})

(***************************************************************************)
(* OneTapProfitMonitor                                                     *)
(***************************************************************************)
NoSettlement == [betId |-> 0, won |-> FALSE, origin |-> 0, priceAge |-> 0]

OTMIdle == [queuedBets |-> {}, settlementQueue |-> <<>>, isSettling |-> FALSE,
            pc |-> "idle", cur |-> NoSettlement, chain |-> "base",
            previousStatus |-> "ACTIVE", expiredLeft |-> FALSE]

\* currentPrice >= gridMin && currentPrice <= gridMax
PriceInRange(bet, currentPrice) ==
    /\ 2 * currentPrice >= 2 * bet.targetPrice - GRID_Y_DOLLARS
    /\ 2 * currentPrice <= 2 * bet.targetPrice + GRID_Y_DOLLARS

\* A time window that closes before targetTime.
InTimeWindowBeforeTarget(bet) == NowSec >= bet.entryTime /\ NowSec < bet.targetTime

\* now >= bet.entryTime && now <= bet.targetTime
InTimeWindow(bet) == NowSec >= bet.entryTime /\ NowSec <= bet.targetTime

\* The for-loop of checkBets over the active bets.  A queued settlement
\* carries, besides the fields of the code, two history fields: the bet it
\* was decided for (origin) and the age of the price entry that decided it.
RECURSIVE ScanBets(_, _, _)
ScanBets(order, queued, queue) ==
    IF order = <<>> THEN [queuedBets |-> queued, settlementQueue |-> queue]
    ELSE LET bet == bets[Head(order)]
             priceData == currentPrices[bet.symbol]
             won == PriceInRange(bet, priceData.price) /\ InTimeWindow(bet)
             shouldSettle == won \/ NowSec > bet.targetTime
         IN IF priceData = NoPrice
            THEN ScanBets(Tail(order), queued, queue)
            ELSE IF shouldSettle /\ bet.betId \notin queued
            THEN ScanBets(Tail(order), queued \cup {bet.betId},
                          Append(queue, [betId |-> bet.betId, won |-> won,
                                         origin |-> Head(order),
                                         priceAge |-> now - priceData.timestamp]))
            ELSE ScanBets(Tail(order), queued, queue)

\* A return from processSettlementQueue that leaves the flag set.
ReturnStillSettling(m) == [m EXCEPT !.pc = "idle", !.cur = NoSettlement]

\* finally { this.isSettling = false }
FinallyNotSettling(m) ==
    [m EXCEPT !.isSettling = FALSE, !.pc = "idle", !.cur = NoSettlement]

\* The head of the while-loop of processSettlementQueue, up to the first
\* await that yields: the next settlement is shifted, its bet looked up by
\* the bare id and OneTapProfitService.settleBet entered for the chain of
\* the bet found; with an empty queue the loop ends.
NextSettlement(m) ==
    IF m.settlementQueue = <<>>
    THEN FinallyNotSettling(m)
    ELSE LET s == Head(m.settlementQueue)
         IN IF getBet(s.betId) = 0
            THEN [m EXCEPT !.settlementQueue = Tail(@), !.isSettling = TRUE,
                           !.queuedBets = @ \ {s.betId}, !.pc = "delay",
                           !.cur = s]
            ELSE [m EXCEPT !.settlementQueue = Tail(@), !.isSettling = TRUE,
                           !.pc = "getBalance", !.cur = s,
                           !.chain = bets[getBet(s.betId)].chain]

\* History: one more call of OneTapProfitService.settleBet for the bet the
\* monitor m has just entered it for.
CountCall(m) ==
    IF m.pc = "getBalance"
    THEN [settleCalls EXCEPT ![BetAt(m.chain, m.cur.betId)] =
              IF @ < SettleCallsCap THEN @ + 1 ELSE @]
    ELSE settleCalls

\* History: the tick leaves an ACTIVE bet past its targetTime whose id is
\* not among the queued ones.
ExpiredNotQueued(queued) ==
    \E i \in DOMAIN bets :
        /\ bets[i].status = "ACTIVE"
        /\ NowSec > bets[i].targetTime
        /\ bets[i].betId \notin queued

\* checkBets: one tick of the interval
checkBets ==
    /\ getActiveBets # <<>>
    /\ LET r == ScanBets(getActiveBets, otm.queuedBets, otm.settlementQueue)
           scanned == [otm EXCEPT !.queuedBets = r.queuedBets,
                                  !.settlementQueue = r.settlementQueue,
                                  !.expiredLeft = ExpiredNotQueued(r.queuedBets)]
       IN IF otm.isSettling \/ r.settlementQueue = <<>>
          THEN otm' = scanned /\ UNCHANGED settleCalls
          ELSE otm' = NextSettlement(scanned) /\ settleCalls' = CountCall(otm')
    /\ UNCHANGED <<priceVars, nonBetVars, bets, betsByTrader, placing>>

\* OneTapProfitService.settleBet after the balance check: the status is
\* written before the settlement is sent
OTMSettleOptimistic ==
    /\ otm.pc = "getBalance"
    /\ LET k == BetAt(otm.chain, otm.cur.betId)
       IN /\ otm' = [otm EXCEPT !.pc = "tx", !.previousStatus = bets[k].status]
          /\ bets' = [bets EXCEPT ![k].status = IF otm.cur.won THEN "WON" ELSE "LOST"]
    /\ UNCHANGED <<priceVars, nonBetVars, settleCalls, betsByTrader, placing>>

\* A catch that ends the draining of the queue.
BreakOnError(m) == [m EXCEPT !.isSettling = FALSE, !.pc = "idle", !.cur = NoSettlement]

\* processSettlementQueue, catch (error): logged, and the while-loop goes on
AfterSettleError(m) == NextSettlement(m)

\* A catch that rethrows without touching the status.
KeepDecidedStatus(k) == bets

\* catch (error): if (betToUpdate && previousStatus) betToUpdate.status = previousStatus
RollbackStatus(k) == [bets EXCEPT ![k].status = otm.previousStatus]

\* contract.settleBet and tx.wait(): on success the bet leaves queuedBets and
\* the loop sleeps; on failure the status is rolled back and the loop goes on
OTMSettleResult ==
    /\ otm.pc = "tx"
    /\ \E ok \in BOOLEAN :
         IF ok
         THEN /\ otm' = [otm EXCEPT !.pc = "delay",
                                    !.queuedBets = @ \ {otm.cur.betId}]
              /\ UNCHANGED <<bets, settleCalls>>
         ELSE /\ bets' = RollbackStatus(BetAt(otm.chain, otm.cur.betId))
              /\ otm' = AfterSettleError(otm)
              /\ settleCalls' = CountCall(otm')
    /\ UNCHANGED <<priceVars, nonBetVars, betsByTrader, placing>>

\* The 2 s pause after a successful settlement is over
OTMAfterDelay ==
    /\ otm.pc = "delay"
    /\ otm' = NextSettlement(otm)
    /\ settleCalls' = CountCall(otm')
    /\ UNCHANGED <<priceVars, nonBetVars, bets, betsByTrader, placing>>

\* The sessionSignature of a request: absent, or made by the session of one
\* of the traders.
SessionSignatures == {"absent"} \cup Traders

\* POST /place-bet-with-session: a request without a sessionSignature is
\* answered 400; any other is handed to placeBetByKeeper.
PlaceBet ==
    /\ \E trader \in {"alice"}, sessionSignature \in SessionSignatures,
          chain \in Venues, target \in TargetPrices, ok \in BOOLEAN :
         IF sessionSignature = "absent"
         THEN UNCHANGED <<bets, betsByTrader, placing>>
         ELSE placeBetByKeeper([trader |-> trader, targetPrice |-> target,
                                sessionSignature |-> sessionSignature], chain, ok)
    /\ UNCHANGED <<priceVars, nonBetVars, otm, settleCalls>>

InitBets ==
    /\ bets = <<>>
    /\ betsByTrader = <<>>
    /\ placing = NoPlacing
    /\ otm = OTMIdle
    /\ settleCalls = [i \in 1..MaxBets |-> 0]

(***************************************************************************)
(* The position subsystem: price feed, TP/SL monitor, relay, liquidation.  *)
(***************************************************************************)
PriceUpdate ==
    /\ \E sym \in Symbols, p \in DollarPrices, t \in PublishTimes :
         processPriceUpdate(sym, p, t)
    /\ UNCHANGED <<posVars, loVars, tapVars, betVars, procVars>>

\* The feed delivers a message; the message is kept as history.
NoTick == [symbol |-> "none", price |-> 0, publishTime |-> 0, receivedAt |-> 0]

FeedPrices == DollarPrices \cup {10}

FeedMessage ==
    /\ \E sym \in Symbols, p \in FeedPrices, t \in PublishTimes :
         /\ processPriceUpdate(sym, p, t)
         /\ lastTick' = [symbol |-> sym, price |-> p, publishTime |-> t,
                          receivedAt |-> now]
    /\ UNCHANGED <<posVars, loVars, tapVars, betVars, tpslRunning, exited, auth, fired,
                   settlement, keepers,
                   pyth, los, attested>>

ClockTick == Tick /\ UNCHANGED <<posVars, loVars, tapVars, betVars, procVars>>

SetTPSL == \E pid \in Positions, trader \in Traders, lv \in LevelPairs :
             setTPSL(pid, trader, lv[1], lv[2])

DeleteTPSL == \E pid \in Positions, trader \in TapTraders : deleteTPSL(pid, trader)

\* Positions opened before the backend starts: position 1 is a long of
\* alice, the others are shorts of bob; all were entered at 10 dollars, all
\* with the same collateral.
OpenPosition(pid, collateral) ==
    [trader |-> IF pid = 1 THEN "alice" ELSE "bob", symbol |-> "BTC",
     isLong |-> (pid = 1), collateral |-> collateral,
     entryPrice |-> ToPrice8(10), status |-> POS_OPEN]

InitPrices ==
    /\ now = StartMs
    /\ currentPrices = [s \in Symbols |-> NoPrice]
    /\ keeperPrices = [s \in Symbols |-> NoPrice]

InitPositions(collaterals) ==
    /\ \E c \in collaterals : ledgerPos = [p \in Positions |-> OpenPosition(p, c)]
    /\ pendingNonce = 0
    /\ futureTxs = {}
    /\ txLog = [closers |-> [p \in Positions |-> {}], nonceReused |-> FALSE,
                foreignDelete |-> FALSE]
    /\ tpslConfigs = <<>>
    /\ tpslOrder = <<>>
    /\ tpsl = TPSLIdle
    /\ relay = RelayIdle
    /\ requests = 0
    /\ pm = PMIdle
    /\ partialFailed = {}

(***************************************************************************)
(* The trigger conditions and the settlement arithmetic, evaluated over    *)
(* prices on both sides of a level and on it, and over collaterals and     *)
(* results from a total loss to a profit.                                  *)
(***************************************************************************)
TriggerPrices == {ToPrice8(9), ToPrice8(10), ToPrice8(11)}
TriggerLevel == ToPrice8(10)
\* 0n: the level is not set
TPSLLevels == {0, ToPrice8(9), ToPrice8(10), ToPrice8(11)}
OrderTypes == {LIMIT_OPEN, LIMIT_CLOSE, STOP_LOSS}
FeeCollaterals == {0, 1999, 2000, 10000, 12345}
FeePnls == {-20000, -12345, -12339, -10000, -1, 0, 1, 5000}
FeeRises == {0, 1, 6, 30000}

NoFired == [by |-> "none"]
NotComputed == [collateral |-> -1]

\* LimitOrderExecutor.checkAndExecuteOrders: shouldExecute of one order at one price
CheckOrderTrigger ==
    /\ \E orderType \in OrderTypes, isLong \in BOOLEAN, price \in TriggerPrices :
         fired' = [by |-> "LimitOrderExecutor", orderType |-> orderType,
                   isLong |-> isLong, price |-> price, triggerPrice |-> TriggerLevel,
                   shouldExecute |->
                       LOShouldExecute([orderType |-> orderType, isLong |-> isLong,
                                        triggerPrice |-> TriggerLevel], price)]
    /\ UNCHANGED <<priceVars, posVars, loVars, tapVars, betVars, tpslRunning, exited,
                   lastTick, auth, settlement, keepers,
                   pyth, los, attested>>

\* TPSLMonitor.checkTPSLTrigger of one config at one price
CheckTPSLTrigger ==
    /\ \E isLong \in BOOLEAN, price \in TriggerPrices,
          takeProfit \in TPSLLevels, stopLoss \in TPSLLevels :
         fired' = [by |-> "TPSLMonitor", isLong |-> isLong, price |-> price,
                   takeProfit |-> takeProfit, stopLoss |-> stopLoss,
                   takeProfitHit |-> TakeProfitHit(isLong, price, takeProfit),
                   stopLossHit |-> StopLossHit(isLong, price, stopLoss),
                   shouldClose |->
                       TPSLShouldClose(isLong, price, [takeProfit |-> takeProfit,
                                                       stopLoss |-> stopLoss])]
    /\ UNCHANGED <<priceVars, posVars, loVars, tapVars, betVars, tpslRunning, exited,
                   lastTick, auth, settlement, keepers,
                   pyth, los, attested>>

\* The four amounts of closePosition and of closePositionGasless
SettlementOf(collateral, pnl) ==
    [tpsl |-> [totalFee |-> TPSLTradingFee(collateral),
               keeperFee |-> TPSLKeeperFee(collateral),
               treasuryFee |-> TPSLTreasuryFee(collateral),
               refund |-> TPSLRefund(collateral, pnl)],
     relay |-> [totalFee |-> RelayTradingFee(collateral),
                keeperFee |-> RelayRelayerFee(collateral),
                treasuryFee |-> RelayTreasuryFee(collateral),
                refund |-> RelayRefund(collateral, pnl)]]

\* The arithmetic at one collateral, at a result and at a result that is not lower
ComputeSettlement ==
    /\ \E collateral \in FeeCollaterals, pnl \in FeePnls, rise \in FeeRises :
         settlement' = [collateral |-> collateral, pnl |-> pnl, higherPnl |-> pnl + rise,
                        at |-> SettlementOf(collateral, pnl),
                        atHigher |-> SettlementOf(collateral, pnl + rise)]
    /\ UNCHANGED <<priceVars, posVars, loVars, tapVars, betVars, tpslRunning, exited,
                   lastTick, auth, fired, keepers,
                   pyth, los, attested>>

(***************************************************************************)
(* start, stop and monitorLoop of TPSLMonitor and LimitOrderExecutor.  A   *)
(* call of monitorLoop is either inside a cycle (checkAllTPSL,             *)
(* checkAndExecuteOrders and what they await) or in the sleep between two  *)
(* cycles; the calls of one keeper are counted by where they are.          *)
(***************************************************************************)
Keepers == {"TPSLMonitor", "LimitOrderExecutor"}
MaxLoops == 3

\* index.ts has called start() on each keeper: one monitorLoop, in its first cycle
KeepersStarted == [k \in Keepers |-> [isRunning |-> TRUE, cycling |-> 1, sleeping |-> 0]]

\* start(): returns when isRunning; otherwise sets it and calls monitorLoop,
\* which tests isRunning and enters its first cycle
start(k) ==
    keepers' = IF keepers[k].isRunning THEN keepers
               ELSE [keepers EXCEPT ![k].isRunning = TRUE, ![k].cycling = @ + 1]

\* stop(): this.isRunning = false
stop(k) == keepers' = [keepers EXCEPT ![k].isRunning = FALSE]

\* monitorLoop: the cycle returns or throws, and the loop awaits sleep(checkInterval)
monitorLoopSleeps(k) ==
    /\ keepers[k].cycling > 0
    /\ keepers' = [keepers EXCEPT ![k].cycling = @ - 1, ![k].sleeping = @ + 1]

\* monitorLoop: the sleep ends and while (this.isRunning) is tested
monitorLoopWakes(k) ==
    /\ keepers[k].sleeping > 0
    /\ keepers' = IF keepers[k].isRunning
                  THEN [keepers EXCEPT ![k].sleeping = @ - 1, ![k].cycling = @ + 1]
                  ELSE [keepers EXCEPT ![k].sleeping = @ - 1]

KeeperUnchanged ==
    UNCHANGED <<priceVars, posVars, loVars, tapVars, betVars, tpslRunning, exited,
                lastTick, auth, fired, settlement, pyth, los, attested>>

StartKeeper ==
    \E k \in Keepers :
        /\ keepers[k].cycling + keepers[k].sleeping < MaxLoops
        /\ start(k)
        /\ KeeperUnchanged
StopKeeper == \E k \in Keepers : stop(k) /\ KeeperUnchanged
KeeperSleeps == \E k \in Keepers : monitorLoopSleeps(k) /\ KeeperUnchanged
KeeperWakes == \E k \in Keepers : monitorLoopWakes(k) /\ KeeperUnchanged

(***************************************************************************)
(* PythPriceService: the socket, the reconnection and the subscribers.     *)
(* The socket is the WebSocket created last; pythWs tells whether the      *)
(* service holds a reference to one.                                       *)
(***************************************************************************)
maxReconnectAttempts == 5
\* The subscribers: a keeper's copy of the snapshot and the broadcast of index.ts
Callbacks == {"keeper", "broadcast"}

\* History fields: calls, the callbacks the last message invoked, in order;
\* sinceOpen, the reconnections scheduled since a connection last opened;
\* down, shutdown() has completed.
PythConstructed ==
    [socket |-> "none", pythWs |-> FALSE, reconnectAttempts |-> 0, timer |-> FALSE,
     priceUpdateCallbacks |-> <<>>, calls |-> <<>>, sinceOpen |-> 0, down |-> FALSE]

\* A connect that also takes the attempt counter back to 0.
ConnectAndResetAttempts(p) ==
    [p EXCEPT !.socket = "connecting", !.pythWs = TRUE, !.reconnectAttempts = 0]

\* this.pythWs = new WebSocket(...)
connectPythWebSocket(p) == [p EXCEPT !.socket = "connecting", !.pythWs = TRUE]

attemptReconnect(p) ==
    IF p.reconnectAttempts >= maxReconnectAttempts THEN p
    ELSE [p EXCEPT !.reconnectAttempts = @ + 1, !.timer = TRUE,
                   !.sinceOpen = IF @ <= maxReconnectAttempts THEN @ + 1 ELSE @]

\* A notification that ends at the first callback that throws.
NotifyUntilThrow(callbacks, tick, throwers) ==
    LET last == IF \E i \in DOMAIN callbacks : callbacks[i] \in throwers
                THEN CHOOSE i \in DOMAIN callbacks :
                        /\ callbacks[i] \in throwers
                        /\ \A j \in 1..(i - 1) : callbacks[j] \notin throwers
                ELSE Len(callbacks)
    IN [i \in 1..last |-> [callback |-> callbacks[i], tick |-> tick,
                           threw |-> callbacks[i] \in throwers]]

\* priceUpdateCallbacks.forEach(callback => { try { callback(currentPrices) } catch })
notifyPriceUpdate(callbacks, tick, throwers) ==
    [i \in DOMAIN callbacks |-> [callback |-> callbacks[i], tick |-> tick,
                                 threw |-> callbacks[i] \in throwers]]

PythUnchanged ==
    UNCHANGED <<posVars, loVars, tapVars, betVars, tpslRunning, exited, auth, fired,
                settlement, keepers, los, attested>>

\* initialize()
PythInitialize ==
    /\ pyth.socket = "none"
    /\ ~pyth.down
    /\ pyth' = connectPythWebSocket(pyth)
    /\ UNCHANGED <<priceVars, lastTick>>
    /\ PythUnchanged

\* onPriceUpdate(callback)
onPriceUpdate ==
    /\ \E callback \in Callbacks \ RangeOf(pyth.priceUpdateCallbacks) :
         pyth' = [pyth EXCEPT !.priceUpdateCallbacks = Append(@, callback)]
    /\ UNCHANGED <<priceVars, lastTick>>
    /\ PythUnchanged

\* on('open')
PythOpen ==
    /\ pyth.socket = "connecting"
    /\ pyth' = [pyth EXCEPT !.socket = "open", !.reconnectAttempts = 0, !.sinceOpen = 0]
    /\ UNCHANGED <<priceVars, lastTick>>
    /\ PythUnchanged

\* on('message') with a price_update: processPriceUpdate, notifyPriceUpdate;
\* any of the callbacks may throw
PythMessage ==
    /\ pyth.socket = "open"
    /\ \E sym \in Symbols, p \in DollarPrices, t \in PublishTimes,
          throwers \in SUBSET Callbacks :
         /\ lastTick' = [symbol |-> sym, price |-> p, publishTime |-> t,
                          receivedAt |-> now]
         /\ IF TickTooOld(t)
            THEN /\ UNCHANGED <<currentPrices, keeperPrices>>
                 /\ pyth' = [pyth EXCEPT !.calls = <<>>]
            ELSE LET snap == [currentPrices EXCEPT
                                 ![sym] = [price |-> p, timestamp |-> t]]
                     calls == notifyPriceUpdate(pyth.priceUpdateCallbacks, snap[sym],
                                                throwers)
                 IN /\ currentPrices' = snap
                    /\ pyth' = [pyth EXCEPT !.calls = calls]
                    /\ keeperPrices' =
                           IF \E i \in DOMAIN calls :
                                 calls[i].callback = "keeper" /\ ~calls[i].threw
                           THEN SubscriberCopy(snap) ELSE keeperPrices
    /\ UNCHANGED now
    /\ PythUnchanged

\* on('close'), of a socket that was open, connecting or closed by shutdown()
PythClose ==
    /\ pyth.socket \in {"connecting", "open", "closing"}
    /\ pyth' = attemptReconnect([pyth EXCEPT !.socket = "closed"])
    /\ UNCHANGED <<priceVars, lastTick>>
    /\ PythUnchanged

\* The timer of attemptReconnect fires
PythTimer ==
    /\ pyth.timer
    /\ pyth' = connectPythWebSocket([pyth EXCEPT !.timer = FALSE])
    /\ UNCHANGED <<priceVars, lastTick>>
    /\ PythUnchanged

\* shutdown()
PythShutdown ==
    /\ ~pyth.down
    /\ pyth' = [pyth EXCEPT
                   !.socket = IF pyth.pythWs /\ @ \in {"connecting", "open"}
                              THEN "closing" ELSE @,
                   !.pythWs = FALSE,
                   !.priceUpdateCallbacks = <<>>,
                   !.down = TRUE]
    /\ currentPrices' = [s \in Symbols |-> NoPrice]
    /\ UNCHANGED <<now, keeperPrices, lastTick>>
    /\ PythUnchanged

(***************************************************************************)
(* LimitOrderService.createLimitOpenOrder and the executor's               *)
(* autoSetTPSLDirect.  The levels of a request are named by the request.   *)
(***************************************************************************)
MaxCreates == 3
CreateRequests == 1..MaxCreates

\* nextOrderId is the ledger's counter; pending, the creation calls sent and
\* not yet mined, in the order of their nonces.  History: owner, the request
\* whose call created an order; applied, the request whose levels were set on
\* the position an order opened; started, executed.
LOSConstructed ==
    [nextOrderId |-> 1, orderTPSLMap |-> <<>>, pending |-> <<>>, started |-> {},
     owner |-> <<>>, executed |-> {}, applied |-> <<>>]

\* createLimitOpenOrder from await getNextOrderId() to the sending of the call
createLimitOpenOrder(r, withTPSL) ==
    LET nextOrderId == los.nextOrderId
    IN [los EXCEPT !.started = @ \cup {r},
                   !.orderTPSLMap = IF withTPSL THEN PutKey(@, nextOrderId, r) ELSE @,
                   !.pending = Append(@, r)]

\* await tx.wait(): the ledger numbers the order when the call is mined
CreateMined(ok) ==
    IF ok
    THEN [los EXCEPT !.pending = Tail(@),
                     !.owner = PutKey(@, los.nextOrderId, Head(los.pending)),
                     !.nextOrderId = @ + 1]
    ELSE [los EXCEPT !.pending = Tail(@)]

\* autoSetTPSLDirect(orderId, positionId, trader) after the execution of an order
autoSetTPSLDirect(orderId) ==
    IF orderId \in DOMAIN los.orderTPSLMap
    THEN [los EXCEPT !.executed = @ \cup {orderId},
                     !.applied = PutKey(@, orderId, los.orderTPSLMap[orderId]),
                     !.orderTPSLMap = DropKey(@, orderId)]
    ELSE [los EXCEPT !.executed = @ \cup {orderId}]

LOSUnchanged ==
    UNCHANGED <<priceVars, posVars, loVars, tapVars, betVars, tpslRunning, exited,
                lastTick, auth, fired, settlement, keepers, pyth, attested>>

CreateLimitOpen ==
    /\ \E r \in CreateRequests \ los.started, withTPSL \in BOOLEAN :
         los' = createLimitOpenOrder(r, withTPSL)
    /\ LOSUnchanged

CreateReceipt ==
    /\ los.pending # <<>>
    /\ \E ok \in BOOLEAN : los' = CreateMined(ok)
    /\ LOSUnchanged

AutoSetTPSL ==
    /\ \E orderId \in DOMAIN los.owner \ los.executed : los' = autoSetTPSLDirect(orderId)
    /\ LOSUnchanged

(***************************************************************************)
(* routes/price: GET /signed/:symbol.                                      *)
(***************************************************************************)
NotAttested == [symbol |-> "none", price |-> 0, timestamp |-> 0, priceAge |-> 0]

\* The handler: getCurrentPrice(symbol), 404 without an entry, otherwise
\* signPrice(symbol, floor(price * 1e8), floor(Date.now() / 1000) - 2).  The
\* age of the cache entry at signing time is kept as history.
GetSignedPrice(symbol) ==
    LET currentPrice == currentPrices[symbol]
    IN IF currentPrice = NoPrice
       THEN attested
       ELSE [symbol |-> symbol,
             price |-> currentPrice.price * PRICE_DECIMALS_FACTOR,
             timestamp |-> (now \div 1000) - 2,
             priceAge |-> now - currentPrice.timestamp]

SignedPrice ==
    /\ \E symbol \in Symbols : attested' = GetSignedPrice(symbol)
    /\ UNCHANGED <<priceVars, posVars, loVars, tapVars, betVars, tpslRunning, exited,
                   lastTick, auth, fired, settlement, keepers, pyth, los>>

\* index.ts has started the loops; the process runs.
InitProcess ==
    /\ tpslRunning = TRUE
    /\ exited = FALSE
    /\ lastTick = NoTick
    /\ auth = NoAuth
    /\ fired = NoFired
    /\ settlement = NotComputed
    /\ keepers = KeepersStarted
    /\ pyth = PythConstructed
    /\ los = LOSConstructed
    /\ attested = NotAttested

Init ==
    InitPrices /\ InitPositions({4000}) /\ InitLimit /\ InitTap /\ InitBets /\ InitProcess

\* The settlement paths start from a cache that already holds a fresh tick.
InitSettle ==
    /\ now = StartMs
    /\ currentPrices = [s \in Symbols |-> IF s = "BTC" THEN [price |-> 11, timestamp |-> now]
                                         ELSE NoPrice]
    /\ keeperPrices = [s \in Symbols |-> IF s = "BTC"
                                        THEN [price |-> ToPrice8(11), timestamp |-> now]
                                        ELSE NoPrice]
    /\ InitPositions(CollateralSet)
    /\ InitLimit
    /\ InitTap
    /\ InitBets
    /\ InitProcess

TPSLNext ==
    \/ TPSLBeginScan \/ TPSLNextEntry \/ TPSLCheckPosition \/ TPSLCalculatePnL
    \/ TPSLSend \/ TPSLWait \/ TPSLGetNonce

RelayNext == RelayRequest \/ RelayGetPosition \/ RelaySend \/ RelayWait \/ RelayGetNonce

NextSettle == SetTPSL \/ DeleteTPSL \/ TPSLNext \/ RelayNext

SpecSettle == InitSettle /\ [][NextSettle]_vars

LONext == LOBeginScan \/ LOGetOrder \/ LOCheckOrder \/ LOExecute

\* The limit-order executor with the grid store, the feed and the clock.
NextGrid == ClockTick \/ PriceUpdate \/ GridOp \/ LONext

SpecGrid == Init /\ [][NextGrid]_vars

\* The three loops that test the age of a price, with the feed and the clock.
\* The loops share no state that the test reads, so one loop scans at a time
\* while the other two sleep; the feed, the clock and the requests come at
\* any step of a scan.
NextWatch ==
    \/ ClockTick
    \/ PriceUpdate
    \/ SetTPSL
    \/ pm.pc = "sleep" /\ lo.pc = "sleep" /\ TPSLNext
    \/ tpsl.pc = "sleep" /\ lo.pc = "sleep" /\ PMStep
    \/ tpsl.pc = "sleep" /\ pm.pc = "sleep" /\ LONext

SpecWatch == Init /\ [][NextWatch]_vars

\* TPSLMonitor.stop()
TPSLStop ==
    /\ tpslRunning
    /\ tpslRunning' = FALSE
    /\ UNCHANGED <<priceVars, posVars, loVars, tapVars, betVars, exited, lastTick, auth,
                   fired, settlement, keepers,
                   pyth, los, attested>>

\* The SIGINT / SIGTERM handler: stop() of every loop, then process.exit(0)
Shutdown ==
    /\ ~exited
    /\ tpslRunning' = FALSE
    /\ exited' = TRUE
    /\ UNCHANGED <<priceVars, posVars, loVars, tapVars, betVars, lastTick, auth, fired,
                   settlement, keepers,
                   pyth, los, attested>>

\* The TP/SL monitor with stop() and the shutdown path: no code runs once
\* the process has exited.
NextStop ==
    \/ ~exited /\ SetTPSL
    \/ ~exited /\ TPSLStop
    \/ ~exited /\ TPSLBeginScan
    \/ ~exited /\ TPSLNextEntry
    \/ ~exited /\ TPSLCheckPosition
    \/ ~exited /\ TPSLCalculatePnL
    \/ ~exited /\ TPSLSend
    \/ ~exited /\ TPSLWait
    \/ ~exited /\ TPSLGetNonce
    \/ Shutdown

SpecStop == InitSettle /\ [][NextStop]_vars

\* The two stores that are swept for expired entities, with the clock.
NextSweep == ClockTick \/ TapOrderOp \/ GridOp

SpecSweep == Init /\ [][NextSweep]_vars

\* The stores whose entities an owner can cancel, re-sign or delete.
NextOwner == TapOrderOp \/ GridOp \/ SetTPSL \/ DeleteTPSL

SpecOwner == Init /\ [][NextOwner]_vars

\* The stores with their indices: the order and grid stores on one side, the
\* bet store on the other. The two sides share no state, and a behaviour
\* works on one of them.
NextIndex ==
    \/ bets = <<>> /\ placing = NoPlacing /\ TapOrderOp
    \/ bets = <<>> /\ placing = NoPlacing /\ GridOp
    \/ ttOrders = <<>> /\ gridSessions = <<>> /\ PlaceBet
    \/ ttOrders = <<>> /\ gridSessions = <<>> /\ StoreBet
    \/ ttOrders = <<>> /\ gridSessions = <<>> /\ SyncBet

SpecIndex == Init /\ [][NextIndex]_vars

\* The trigger conditions over their inputs.
NextTrigger == CheckOrderTrigger \/ CheckTPSLTrigger

SpecTrigger == Init /\ [][NextTrigger]_vars

\* The settlement arithmetic over its inputs.
NextFees == ComputeSettlement

SpecFees == Init /\ [][NextFees]_vars

\* The keepers' loops under calls of start() and stop().
NextLoops == StartKeeper \/ StopKeeper \/ KeeperSleeps \/ KeeperWakes

SpecLoops == Init /\ [][NextLoops]_vars

\* The price service: its socket, its subscribers and its shutdown.
NextPyth ==
    \/ PythInitialize \/ onPriceUpdate \/ PythOpen \/ PythMessage \/ PythClose
    \/ PythTimer \/ PythShutdown

SpecPyth == Init /\ [][NextPyth]_vars

\* The creation of limit-open orders with TP/SL levels and their execution.
NextCreate == CreateLimitOpen \/ CreateReceipt \/ AutoSetTPSL

SpecCreate == Init /\ [][NextCreate]_vars

\* The price cache, the clock and the signed-price endpoint.
NextSign == PriceUpdate \/ ClockTick \/ SignedPrice

SpecSign == Init /\ [][NextSign]_vars

\* The tap-to-trade order store with single and batch creation.
NextBatch == TapOrderOp \/ BatchCreate

SpecBatch == Init /\ [][NextBatch]_vars

\* The session validator with the clock: one call per behaviour, at any time
\* of the clock.
NextAuth == ClockTick \/ (auth = NoAuth /\ ValidateSession)

SpecAuth == Init /\ [][NextAuth]_vars

\* The price cache with its feed and the clock.
NextFeed == ClockTick \/ FeedMessage

SpecFeed == Init /\ [][NextFeed]_vars

OTMNext == checkBets \/ OTMSettleOptimistic \/ OTMSettleResult \/ OTMAfterDelay

\* The bet service and its monitor, with the feed and the clock.  The feed
\* fills the cache before the first bet is placed; from then on the clock
\* alone ages the entry the monitor decides on.
NextBets ==
    \/ ClockTick
    \/ bets = <<>> /\ placing = NoPlacing /\ PriceUpdate
    \/ PlaceBet
    \/ StoreBet
    \/ OTMNext

SpecBets == Init /\ [][NextBets]_vars

\* The bet monitor under a fair scheduler: every awaited call of a running
\* processSettlementQueue settles and its timer fires; the ticks of the
\* interval, the requests and the clock are free.
NextDrain == ClockTick \/ PlaceBet \/ StoreBet \/ OTMNext

SpecDrain ==
    /\ InitSettle
    /\ [][NextDrain]_vars
    /\ WF_vars(OTMSettleOptimistic)
    /\ WF_vars(OTMSettleResult)
    /\ WF_vars(OTMAfterDelay)

\* The three loops that catch the errors of an entity, each from a cache with
\* a fresh tick, one loop per behaviour; the feed moves the price to the
\* trigger of the limit order.
TPSLUntouched == requests = 0 /\ tpsl = TPSLIdle
LOUntouched == lo = LOIdle /\ ledgerOrders = [o \in 1..MaxOrders |-> PlacedOrder(o)]
BetsUntouched == bets = <<>> /\ placing = NoPlacing /\ otm = OTMIdle
NextScan ==
    \/ LOUntouched /\ BetsUntouched /\ SetTPSL
    \/ LOUntouched /\ BetsUntouched /\ TPSLNext
    \/ TPSLUntouched /\ BetsUntouched /\ PriceUpdate
    \/ TPSLUntouched /\ BetsUntouched /\ LONext
    \/ TPSLUntouched /\ LOUntouched /\ PlaceBet
    \/ TPSLUntouched /\ LOUntouched /\ StoreBet
    \/ TPSLUntouched /\ LOUntouched /\ OTMNext

SpecScan == InitSettle /\ [][NextScan]_vars

\* The tap-to-trade order store with the clock.
NextTap == ClockTick \/ TapOrderOp

SpecTap == Init /\ [][NextTap]_vars

(***************************************************************************)
(* Settlement sequences in flight.                                         *)
(***************************************************************************)
\* TPSLMonitor.closePosition has been entered for p and has not returned.
TPSLInFlight(p) ==
    tpsl.pc \in {"calculatePnL", "send", "wait", "getNonce"} /\ tpsl.pid = p
\* RelayService.closePositionGasless is running for p.
RelayInFlight(p) == relay.pc # "idle" /\ relay.pid = p
\* PositionMonitor.liquidatePosition is running for p.
LiquidationInFlight(p) == pm.pc \in {"send", "wait"} /\ pm.id = p

\* The components that have handed a close call for p to the signer.
Closers(p) == txLog.closers[p]

\* The config of p carries a partial-failure marker.  TPSLConfig has no such
\* field and no code path writes one.
HasPartialFailureMarker(p) ==
    p \in DOMAIN tpslConfigs /\ "settlementPartialFailure" \in DOMAIN tpslConfigs[p]

\* C1: at most one settlement sequence is in flight per position id: the
\* TP/SL close, the liquidation and the gasless close never overlap for the
\* same position, and the close call of a position comes from one of them only.
C1_OneSequencePerPosition ==
    \A p \in Positions :
        /\ ~(TPSLInFlight(p) /\ RelayInFlight(p))
        /\ ~(TPSLInFlight(p) /\ LiquidationInFlight(p))
        /\ ~(RelayInFlight(p) /\ LiquidationInFlight(p))
        /\ Cardinality(Closers(p)) <= 1

\* C2: nonce issuance for the shared keeper signer is serialized: no two
\* different calls are ever submitted with the same nonce.
C2_NoNonceReuse ==
    ~txLog.nonceReused

\* C3: within one fee/refund plan the submitted calls carry the nonces
\* n, n+1, n+2, ... with no gap, also when the keeper fee or the refund is zero.
C3_PlanNoncesContiguous ==
    /\ \A i \in DOMAIN tpsl.sent : tpsl.sent[i] = tpsl.nonce + (i - 1)
    /\ \A i \in DOMAIN relay.sent : relay.sent[i] = relay.nonce + (i - 1)

\* C4: a settlement that fails after an earlier call of it finalized leaves
\* its entity in the store, carrying the SettlementPartialFailure marker.
C4_PartialFailureMarked ==
    \A f \in partialFailed : f.by = "tpsl" => HasPartialFailureMarker(f.pid)

\* C10: a limit order attached to a grid cell is executed by the limit-order
\* executor only while cell.startTime <= now <= cell.endTime, whatever status
\* the cell has taken by then.
C10_GridOrderOnlyInWindow ==
    lo.pc = "execute" =>
        \A c \in lo.cells :
            /\ gridCells[c].startTime <= lo.evalAt
            /\ lo.evalAt <= gridCells[c].endTime

\* C7: the limit-order executor, the TP/SL monitor and the liquidation monitor
\* never fire a trigger on a price entry whose timestamp is more than 60
\* seconds older than the time of evaluation.
C7_NoFireOnStalePrice ==
    /\ tpsl.pc \in {"calculatePnL", "send", "wait", "getNonce"}
          => tpsl.priceAge <= StaleBoundMs
    /\ pm.pc \in {"shouldLiquidate", "send", "wait"} => pm.priceAge <= StaleBoundMs
    /\ lo.pc = "execute" => lo.priceAge <= StaleBoundMs

\* C7, the case: the TP/SL monitor and the limit-order executor have both
\* skipped an entity whose level the cached price meets, because the entry is
\* stale; the position is still open and the order still pending.
C7_StaleEntrySkipped ==
    /\ tpsl.stale /\ lo.stale
    /\ 1 \in DOMAIN tpslConfigs
    /\ TPSLShouldClose(ledgerPos[1].isLong, keeperPrices["BTC"].price, tpslConfigs[1])
    /\ LOShouldExecute(ledgerOrders[1], keeperPrices["BTC"].price)
    /\ ledgerPos[1].status = POS_OPEN
    /\ ledgerOrders[1].status = ORDER_PENDING

(***************************************************************************)
(* Statuses of orders and bets, and the settlements of the bet monitor.    *)
(***************************************************************************)
TerminalOrderStatuses == {"EXECUTED", "FAILED", "CANCELLED", "EXPIRED"}
TerminalBetStatuses == {"WON", "LOST"}

\* The settlements the monitor holds: the queued ones and the running one.
HeldSettlements ==
    RangeOf(otm.settlementQueue) \cup (IF otm.pc = "idle" THEN {} ELSE {otm.cur})

\* C5: once an order is EXECUTED, FAILED, CANCELLED or EXPIRED, or a bet is
\* WON or LOST, no later transition request changes its status.
C5_TerminalIsFinal ==
    [][/\ \A i \in DOMAIN ttOrders :
             ttOrders[i].status \in TerminalOrderStatuses
                => ttOrders'[i].status = ttOrders[i].status
       /\ \A i \in DOMAIN bets :
             bets[i].status \in TerminalBetStatuses
                => bets'[i].status = bets[i].status]_vars

\* C9: bets are identified by (venue, id) throughout: the settlement decided
\* for a bet is sent to the venue and id of that very bet, also when the
\* other venue hosts a bet with the same id.
C9_SettledOnOwnVenue ==
    otm.pc \in {"getBalance", "tx"} => BetAt(otm.chain, otm.cur.betId) = otm.cur.origin

\* C6: the monitor produces at most one settlement per bet, so
\* OneTapProfitService.settleBet is called at most once for each bet.
C6_AtMostOneSettleCall ==
    \A i \in DOMAIN bets : settleCalls[i] <= 1

\* C8: the monitor decides a bet WON or LOST only on a price entry younger
\* than the staleness bound at the time of the evaluation.
C8_BetDecidedOnFreshPrice ==
    \A s \in HeldSettlements : s.priceAge <= StaleBoundMs

\* C11: each scan evaluates every candidate of its kind: no pending order
\* lies below the id the limit-order scan starts from, and the liquidation
\* scan never passes over a position that is open and has a fresh price.
C11_EveryCandidateEvaluated ==
    /\ lo.pc # "sleep" =>
          \A o \in DOMAIN ledgerOrders :
             ledgerOrders[o].status = ORDER_PENDING => LOStartId(LOCurrentOrderId) <= o
    /\ ~pm.missed

\* C12: every ACTIVE bet that has not fired WON is enqueued as LOST by the
\* first checkBets tick at which now > targetTime, whether or not a price
\* entry is available for its symbol.
C12_ExpiredBetEnqueued ==
    ~otm.expiredLeft

\* C13: a settlement that failed is attempted again by a later tick while
\* its trigger holds.  For bets: an ACTIVE bet that the ticks no longer
\* enqueue (its id is in queuedBets) is still held by the monitor, queued or
\* running, so that its settlement is yet to be attempted.
C13_FailedBetStaysActionable ==
    \A i \in DOMAIN bets :
        bets[i].status = "ACTIVE" /\ bets[i].betId \in otm.queuedBets
            => \E s \in HeldSettlements : s.betId = bets[i].betId

\* C14: stop() only prevents new scans: once stopped the TP/SL loop begins no
\* new scan, and a settlement plan in flight still issues its remaining
\* calls, so the process never exits with a plan in flight, also on the
\* SIGINT/SIGTERM path.
C14_StopCompletesInFlight ==
    [][/\ (~tpslRunning /\ tpsl.pc = "sleep" => tpsl'.pc = "sleep")
       /\ (exited' => \A p \in Positions : ~TPSLInFlight(p)')]_vars

\* C15: the cache replaces the stored tick of a symbol only by a tick with a
\* newer publishTime, so the stored publishTime of a symbol never decreases.
C15_PublishTimeNeverDecreases ==
    [][\A s \in Symbols :
          currentPrices[s] # NoPrice
             => currentPrices'[s].timestamp >= currentPrices[s].timestamp]_vars

\* C16: a tick whose publishTime is more than 60 s before its receipt is not
\* stored and notifies no subscriber, also when nothing is stored yet for its
\* symbol; the stored tick, if any, is left as it is.
C16_OldTickRejected ==
    [][(lastTick' # lastTick
           /\ lastTick'.receivedAt - lastTick'.publishTime > StaleBoundMs)
          => UNCHANGED <<currentPrices, keeperPrices>>]_vars

\* C16, the case: the feed has delivered a tick older than 60 s for a symbol
\* that has no stored tick, and the symbol still has none.
C16_OldTickOnFirstSight ==
    /\ lastTick.symbol = "BTC"
    /\ lastTick.receivedAt - lastTick.publishTime > StaleBoundMs
    /\ currentPrices["BTC"] = NoPrice
    /\ keeperPrices["BTC"] = NoPrice

\* C17: the sweep moves to EXPIRED every entity whose window has elapsed
\* (now > endTime) and whose status is not terminal (orders: PENDING,
\* NEEDS_RESIGN, EXECUTING; cells: PENDING, ACTIVE) and changes no other.
C17_SweepCoversNonTerminal ==
    /\ \A i \in DOMAIN ttOrders :
          cleanupExpiredOrders(ttOrders)[i] =
             IF /\ NowSec > ttOrders[i].endTime
                /\ ttOrders[i].status \in {"PENDING", "NEEDS_RESIGN", "EXECUTING"}
             THEN [ttOrders[i] EXCEPT !.status = "EXPIRED"]
             ELSE ttOrders[i]
    /\ \A c \in DOMAIN gridCells :
          cleanupExpiredCells(gridCells)[c] =
             IF /\ NowSec > gridCells[c].endTime
                /\ gridCells[c].status \in {"PENDING", "ACTIVE"}
             THEN [gridCells[c] EXCEPT !.status = "EXPIRED"]
             ELSE gridCells[c]

\* The four conditions of a delegated order, at the time of the call `at`.
SessionUnexpired(params, at) == params.sessionKey.expiresAt > at

OwnerMatches(params) ==
    toLowerCase(params.sessionKey.authorizedBy) = toLowerCase(params.trader)

AuthorizationBySigner(params) ==
    recoverAddress(AuthMessage(params.sessionKey.address,
                               params.sessionKey.expiresAt \div 1000),
                   params.sessionKey.authSignature)

AuthorizationFromTrader(params) ==
    toLowerCase(AuthorizationBySigner(params)) = toLowerCase(params.trader)

OrderBySigner(params) ==
    recoverAddress(OrderMessage(params.trader, params.nonce, params.marketExecutor),
                   params.signature)

OrderFromSessionKey(params) ==
    toLowerCase(OrderBySigner(params)) = toLowerCase(params.sessionKey.address)

\* The reasons a failing check reports: its own string, or for a check that
\* recovers a signer the message of the error a malformed signature raises.
ReasonsOfFirstFailing(params, at) ==
    IF ~SessionUnexpired(params, at) THEN {"Session expired"}
    ELSE IF ~OwnerMatches(params) THEN {"Session not authorized by trader"}
    ELSE IF ~AuthorizationFromTrader(params)
    THEN IF AuthorizationBySigner(params) = "throw" THEN {ErrMessage}
         ELSE {"Invalid session authorization signature"}
    ELSE IF OrderBySigner(params) = "throw" THEN {ErrMessage}
    ELSE {"Order signature not from session key"}

\* C18: validateOrderWithSession answers valid exactly when the session is
\* unexpired (expiresAt > now), authorizedBy is the order's trader, the
\* authorization signature recovers to the trader and the order signature
\* recovers to the session key; otherwise it answers invalid (it never
\* throws) with the reason of the first of these checks that fails.
C18_ValidIffFourChecks ==
    auth # NoAuth =>
        /\ auth.result.valid = (/\ SessionUnexpired(auth.params, auth.at)
                                /\ OwnerMatches(auth.params)
                                /\ AuthorizationFromTrader(auth.params)
                                /\ OrderFromSessionKey(auth.params))
        /\ auth.result.valid => auth.result = Valid
        /\ ~auth.result.valid =>
               auth.result.error \in ReasonsOfFirstFailing(auth.params, auth.at)

\* A session validated in the millisecond it expires, everything else in
\* order: the answer is invalid, "Session expired".
C18_ExpiresAtTheCall ==
    /\ auth # NoAuth
    /\ auth.params.sessionKey.expiresAt = auth.at
    /\ OwnerMatches(auth.params)
    /\ AuthorizationFromTrader(auth.params)
    /\ OrderFromSessionKey(auth.params)
    /\ auth.result = Invalid("Session expired")

\* A delegated order that validates before FarExpiry, and its four mutations.
BaseOrder ==
    [trader |-> "alice", nonce |-> 1,
     signature |-> SignedBy("sk1", OrderMessage("alice", 1, "executorBase")),
     marketExecutor |-> "executorBase",
     sessionKey |-> [address |-> "sk1", expiresAt |-> FarExpiry, authorizedBy |-> "Alice",
                     authSignature |-> SignedBy("Alice", AuthMessage("sk1", FarExpiry \div 1000))]]

ExpiryInThePast == [BaseOrder EXCEPT !.sessionKey.expiresAt = PastExpiry,
                                     !.sessionKey.authSignature =
                                         SignedBy("Alice", AuthMessage("sk1", PastExpiry \div 1000))]
WrongOwner == [BaseOrder EXCEPT !.sessionKey.authorizedBy = "bob"]
WrongDelegateSignature ==
    [BaseOrder EXCEPT !.signature = SignedBy("sk2", OrderMessage("alice", 1, "executorBase"))]
WrongTargetContract == [BaseOrder EXCEPT !.marketExecutor = "executorOther"]

Mutations == {ExpiryInThePast, WrongOwner, WrongDelegateSignature, WrongTargetContract}

\* C19 as stated: the base order is valid, each of the four mutations is
\* invalid, and the four reasons are pairwise different.
C19_FourDistinctReasons ==
    /\ validateOrderWithSession(BaseOrder).valid
    /\ \A x \in Mutations : ~validateOrderWithSession(x).valid
    /\ \A x, y \in Mutations :
          x # y => validateOrderWithSession(x).error # validateOrderWithSession(y).error

\* C19 amended: the base order is valid and each of the four mutations is
\* invalid; an expiry in the past reports "Session expired", a wrong owner
\* "Session not authorized by trader", and a wrong delegate signature and a
\* wrong target contract report the same "Order signature not from session
\* key".
C19_MutationsRejected ==
    /\ auth.params = BaseOrder => auth.result = Valid
    /\ auth.params = ExpiryInThePast => auth.result = Invalid("Session expired")
    /\ auth.params = WrongOwner => auth.result = Invalid("Session not authorized by trader")
    /\ auth.params = WrongDelegateSignature =>
          auth.result = Invalid("Order signature not from session key")
    /\ auth.params = WrongTargetContract =>
          auth.result = Invalid("Order signature not from session key")

\* The base order signed for another contract has been validated.
C19_WrongTargetValidated ==
    /\ auth.params = WrongTargetContract
    /\ ~auth.result.valid

\* C20: every PENDING order of the store carries a (nonce, signature) pair
\* that passes the signature validation, and a request whose validation fails
\* leaves the store as it was.
C20_PendingCarriesValidatedPair ==
    \A i \in DOMAIN ttOrders :
        ttOrders[i].status = "PENDING" =>
            TapValidation(ttOrders[i].trader, ttOrders[i].signature).valid

\* C21: every bet placed on a venue and entered into the store comes from a
\* request whose session credential was verified as authorizing the bet's
\* trader.
C21_BetAuthorizedByTrader ==
    \A i \in DOMAIN bets : bets[i].signedFor = bets[i].trader

\* C22: closePositionGasless sends a call to the ledger only for a request
\* whose userAddress is the owner of the position.
C22_CloseOnlyForOwner ==
    relay.pc \in {"send", "wait", "getNonce"} =>
        relay.userAddress = ledgerPos[relay.pid].trader

IndexedIds(index, key) == RangeOf(IdsOf(index, key))
EachIdOnce(index) ==
    \A key \in DOMAIN index : Cardinality(RangeOf(index[key])) = Len(index[key])

\* C24: after every store operation the indices agree with the primary
\* maps: ordersByTrader, ordersByGrid and ordersByCell hold exactly the ids
\* of the stored orders with that trader, grid session and cell, cellsByGrid
\* the ids of the cells of that grid and betsByTrader the keys of the bets of
\* that trader, each id once.
C24_IndicesAgree ==
    /\ \A t \in Traders :
          IndexedIds(ordersByTrader, t) = {i \in DOMAIN ttOrders : ttOrders[i].trader = t}
    /\ \A g \in 1..MaxGrids :
          /\ IndexedIds(ordersByGrid, g) =
                {i \in DOMAIN ttOrders : ttOrders[i].gridSessionId = g}
          /\ IndexedIds(ordersByCell, g) = {i \in DOMAIN ttOrders : ttOrders[i].cellId = g}
          /\ IndexedIds(cellsByGrid, g) =
                {c \in DOMAIN gridCells : gridCells[c].gridSessionId = g}
    /\ \A t \in Traders :
          IndexedIds(betsByTrader, t) =
              {<<bets[i].chain, bets[i].betId>> : i \in {j \in DOMAIN bets : bets[j].trader = t}}
    /\ EachIdOnce(ordersByTrader) /\ EachIdOnce(ordersByGrid) /\ EachIdOnce(ordersByCell)
    /\ EachIdOnce(cellsByGrid) /\ EachIdOnce(betsByTrader)

\* The settlements a monitor holds, queued or in hand.
QueuedItems(m) ==
    RangeOf(m.settlementQueue) \cup (IF m.cur = NoSettlement THEN {} ELSE {m.cur})

\* The conditions of the two outcomes for a bet at the present time and price.
InWindowAndBand(bet) ==
    /\ bet.entryTime <= NowSec /\ NowSec <= bet.targetTime
    /\ 2 * bet.targetPrice - GRID_Y_DOLLARS <= 2 * currentPrices[bet.symbol].price
    /\ 2 * currentPrices[bet.symbol].price <= 2 * bet.targetPrice + GRID_Y_DOLLARS

PastTarget(bet) == NowSec > bet.targetTime

AtOrBelowForLong(isLong, price, level) ==
    (isLong /\ price <= level) \/ (~isLong /\ price >= level)
AtOrAboveForLong(isLong, price, level) ==
    (isLong /\ price >= level) \/ (~isLong /\ price <= level)
C27_RefundMonotoneAndNonNegative ==
    settlement # NotComputed =>
        \A path \in {"tpsl", "relay"} :
            /\ settlement.at[path].refund >= 0
            /\ settlement.atHigher[path].refund >= 0
            /\ settlement.at[path].refund <= settlement.atHigher[path].refund

\* A loss of the whole collateral refunds nothing, and a better result refunds
\* something.
C27_TotalLossThenRecovery ==
    /\ settlement # NotComputed
    /\ settlement.collateral > 0
    /\ settlement.pnl = -settlement.collateral
    /\ settlement.at["tpsl"].refund = 0
    /\ settlement.atHigher["tpsl"].refund > 0

\* C28: the two close paths compute the same four amounts: the total fee is
\* floor(collateral * 5 / 10000), the keeper's share floor(totalFee * 20 / 100),
\* the treasury's share the rest, the refund collateral + pnl - totalFee for a
\* pnl >= 0 and max(0, collateral - |pnl| - totalFee) otherwise.
FloorOfRatio(n, d) == n \div d
MaxOf(a, b) == IF a >= b THEN a ELSE b
StatedAmounts(collateral, pnl) ==
    LET totalFee == FloorOfRatio(collateral * 5, 10000)
        keeperFee == FloorOfRatio(totalFee * 20, 100)
    IN  [totalFee |-> totalFee,
         keeperFee |-> keeperFee,
         treasuryFee |-> totalFee - keeperFee,
         refund |-> IF pnl >= 0 THEN collateral + pnl - totalFee
                    ELSE MaxOf(0, collateral - (-pnl) - totalFee)]
C28_SameAmountsOnBothPaths ==
    settlement # NotComputed =>
        /\ settlement.at["tpsl"] = settlement.at["relay"]
        /\ settlement.at["tpsl"] = StatedAmounts(settlement.collateral, settlement.pnl)
        /\ settlement.at["tpsl"].keeperFee + settlement.at["tpsl"].treasuryFee
               = settlement.at["tpsl"].totalFee

\* A partial loss on a collateral whose fee does not divide evenly.
C28_RoundedShares ==
    /\ settlement # NotComputed
    /\ settlement.pnl < 0
    /\ settlement.at["relay"].totalFee * 20 % 100 # 0
    /\ settlement.at["relay"].keeperFee > 0
    /\ settlement.at["relay"].refund > 0


SettlementFrames == <<tpsl, relay>>
C30_NextCallAfterReceipt ==
    \A i \in DOMAIN SettlementFrames :
        LET f == SettlementFrames[i]
        IN /\ f.pc = "send" /\ f.call # "close" =>
                  /\ f.finalized = 1 + Len(f.sent)
                  /\ Len(f.sent) < PlanIndex(f.call)
           /\ f.pc = "wait" /\ f.call # "close" =>
                  /\ f.finalized = Len(f.sent)
                  /\ Len(f.sent) <= PlanIndex(f.call)
           /\ f.pc = "wait" /\ f.call = "close" =>
                  f.finalized = 0 /\ f.sent = <<>>

\* The keeper is about to send the refund, with the receipts of the close call,
\* the treasury-fee call and the keeper-fee call.
C30_RefundAfterThreeReceipts ==
    /\ tpsl.pc = "send"
    /\ tpsl.call = "refund"
    /\ Len(tpsl.sent) = 2
    /\ tpsl.finalized = 3


\* C31: settleBet writes WON or LOST, as decided, before it sends the ledger
\* call, and the bet keeps that status while the call is out; when the call or
\* its confirmation fails the bet gets back the status it had when settleBet
\* was entered and the error reaches the caller, whose loop goes on without the
\* pause that follows a success; when the call succeeds the status stays as
\* decided.
DecidedStatus(won) == IF won THEN "WON" ELSE "LOST"
SettledBet == BetAt(otm.chain, otm.cur.betId)
SettleSucceeds == otm.pc = "tx" /\ otm'.pc = "delay" /\ otm'.cur = otm.cur
SettleFails == otm.pc = "tx" /\ otm'.pc # "tx" /\ ~SettleSucceeds
C31_OptimisticThenRollback ==
    [][/\ otm.pc = "getBalance" /\ otm'.pc = "tx" =>
              /\ otm'.previousStatus = bets[SettledBet].status
              /\ bets'[SettledBet].status = DecidedStatus(otm.cur.won)
       /\ otm.pc = "tx" /\ otm'.pc = "tx" =>
              /\ otm'.previousStatus = otm.previousStatus
              /\ bets'[SettledBet].status = DecidedStatus(otm.cur.won)
       /\ SettleSucceeds => bets'[SettledBet].status = DecidedStatus(otm.cur.won)
       /\ SettleFails => bets'[SettledBet].status = otm.previousStatus]_vars

\* A settlement has failed: the monitor is idle again, and a bet for which
\* settleBet was entered is ACTIVE.
C31_RolledBackAfterFailure ==
    /\ otm.pc = "idle"
    /\ \E i \in DOMAIN bets : settleCalls[i] >= 1 /\ bets[i].status = "ACTIVE"


\* C32: an error in the evaluation or settlement of one entity is caught per
\* entity.  A failed bet settlement is followed at once by the next queued
\* settlement, or by the end of the draining with isSettling false; a failed
\* close or fee call of the TP/SL monitor puts its scan back at the same place
\* with the configurations untouched, and the monitor stays running; a failed
\* execution of the limit-order executor moves its scan to the next order id or
\* ends the pass, from where the next pass starts.
TPSLCloseFails ==
    /\ tpsl.pc \in {"send", "wait"}
    /\ tpsl'.pc = "scan"
    /\ tpsl.pid \in DOMAIN tpslConfigs'
LOExecutionFails == lo.pc = "execute" /\ lo'.pc # "execute" /\ ledgerOrders' = ledgerOrders
C33_EveryCallbackOnceInOrder ==
    [][(/\ <<lastTick, pyth.calls>>' # <<lastTick, pyth.calls>>
        /\ lastTick'.receivedAt - lastTick'.publishTime <= StaleBoundMs)
          => LET tick == [price |-> lastTick'.price, timestamp |-> lastTick'.publishTime]
             IN /\ Len(pyth'.calls) = Len(pyth.priceUpdateCallbacks)
                /\ \A i \in DOMAIN pyth'.calls :
                       /\ pyth'.calls[i].callback = pyth.priceUpdateCallbacks[i]
                       /\ pyth'.calls[i].tick = tick
                /\ currentPrices'[lastTick'.symbol] = tick]_vars

\* The first of two callbacks threw, the second was invoked all the same, and
\* the cache holds the tick both were given.
C33_SecondCalledAfterThrow ==
    /\ Len(pyth.calls) = 2
    /\ pyth.calls[1].threw
    /\ ~pyth.calls[2].threw
    /\ currentPrices[lastTick.symbol] = pyth.calls[2].tick

\* C34: at most 5 reconnections are scheduled in a row without a connection
\* opening in between; the attempt counter goes back to 0 only when a
\* connection opens; a reconnection is scheduled only below 5 attempts, so
\* after the 5th failed one none is scheduled.
C34_AtMostFiveAttempts ==
    [][/\ pyth.sinceOpen <= 5
       /\ pyth'.reconnectAttempts < pyth.reconnectAttempts =>
              /\ pyth'.reconnectAttempts = 0
              /\ pyth.socket = "connecting"
              /\ pyth'.socket = "open"
       /\ ~pyth.timer /\ pyth'.timer =>
              /\ pyth.sinceOpen < 5
              /\ pyth'.sinceOpen = pyth.sinceOpen + 1]_vars

\* The fifth attempt in a row has failed: the socket is closed and no timer
\* is pending.
C34_GaveUpAfterFive ==
    /\ pyth.sinceOpen = 5
    /\ pyth.socket = "closed"
    /\ ~pyth.timer

\* C38: once shutdown() has completed no reconnection is scheduled or made and
\* no price is stored.
C38_StaysDown ==
    pyth.down =>
        /\ ~pyth.timer
        /\ pyth.socket \notin {"connecting", "open"}
        /\ \A s \in Symbols : currentPrices[s] = NoPrice


\* C35: the TP/SL monitor sends a close call for a position only while the
\* position has a configuration: after deleteTPSL has removed it, no close call
\* follows from the levels it held.
C35_NoCloseAfterDelete ==
    tpsl.pc = "send" /\ tpsl.call = "close" => tpsl.pid \in DOMAIN tpslConfigs


\* C36: the levels set on the position an order opened are those of the
\* request whose call created that order.
C36_LevelsOfTheSameRequest ==
    \A orderId \in DOMAIN los.applied : los.applied[orderId] = los.owner[orderId]


\* C37: no order of a batch whose validation failed is in the order map or in
\* an index.
C37_NothingOfAFailedBatch ==
    /\ \A i \in DOMAIN ttOrders : ~ttOrders[i].inFailedBatch
    /\ \A key \in DOMAIN ordersByTrader :
           \A i \in RangeOf(ordersByTrader[key]) :
               i \in DOMAIN ttOrders => ~ttOrders[i].inFailedBatch

\* C39: every price attestation signed by the backend attests a price whose
\* cache entry is younger than 60 seconds at signing time; a cached price
\* older than that is never signed with a current timestamp.  Here: the
\* attestation of the signed-price endpoint.
C39_SignedPriceIsFresh ==
    attested # NotAttested => attested.priceAge <= StaleBoundMs

QueuedIds == {otm.settlementQueue[i].betId : i \in DOMAIN otm.settlementQueue}
Attempting(id) == otm.pc # "idle" /\ otm.cur.betId = id
InvocationRunning == otm.pc # "idle"

\* C40: every settlement placed on the bet monitor's queue is eventually
\* taken off the queue and attempted; isSettling is false whenever no
\* processSettlementQueue invocation is running; and no entry is on the queue
\* while no invocation is running, whichever tick enqueued it.
C40_QueueIsDrained ==
    /\ [](otm.isSettling = InvocationRunning)
    /\ [](~InvocationRunning => otm.settlementQueue = <<>>)
    /\ \A id \in 1..MaxBets : (id \in QueuedIds) ~> Attempting(id)

\* C40, the case: an invocation is settling an entry while the queue holds an
\* entry that a later tick has put there.
C40_EnqueuedWhileDraining ==
    /\ otm.pc = "tx"
    /\ otm.settlementQueue # <<>>
    /\ otm.cur.priceAge < Head(otm.settlementQueue).priceAge

====
